---------------------------- MODULE Spec2Model ----------------------------
(***************************************************************************)
(* xUpload: the TF-IDF vocabulary/vector model (embeddings.ts), the        *)
(* popup's full and incremental indexing pass (popup.ts buildIndex), the   *)
(* background service worker's message handlers (background.ts:            *)
(* handleBuildIndex, handleMatch, ensureVocab, VOCAB_UPDATED) and the      *)
(* content script's inline folder scan (content.ts scanFolder).            *)
(*                                                                         *)
(* Representation.  A JavaScript string is a sequence of one-character     *)
(* strings, so a token is a sequence of characters and a text is too.      *)
(* A JavaScript number that carries a weight or a score is a fixed-point   *)
(* integer in thousandths (1000 stands for 1.0); NaN is the value NaN.     *)
(* Time stamps are whole days.  Every `await` of the source is one step:   *)
(* the awaited operation takes effect and the synchronous code that        *)
(* follows it runs up to the next `await`.                                 *)
(***************************************************************************)
EXTENDS Integers, Sequences, FiniteSets, TLC

\* ------------------------------------------------------------ helpers --

Range(s) == {s[i] : i \in 1..Len(s)}

Max2(a, b) == IF a >= b THEN a ELSE b

Min2(a, b) == IF a <= b THEN a ELSE b

RECURSIVE SumSeq(_)
SumSeq(s) == IF s = <<>> THEN 0 ELSE Head(s) + SumSeq(Tail(s))

RECURSIVE Concat(_)
Concat(ss) == IF ss = <<>> THEN <<>> ELSE Head(ss) \o Concat(Tail(ss))

\* First position of x in s (0 when absent).
IndexOf(s, x) == IF x \in Range(s) THEN CHOOSE i \in 1..Len(s) : s[i] = x /\ \A j \in 1..(i-1) : s[j] # x ELSE 0

\* s without repeated elements, first occurrences kept in order: the iteration
\* order of `new Set(s)` and of a Map filled by walking s.
RECURSIVE Dedup(_)
Dedup(s) ==
  IF Len(s) <= 1 THEN s
  ELSE LET left == Dedup(SubSeq(s, 1, Len(s) \div 2))
           right == Dedup(SubSeq(s, Len(s) \div 2 + 1, Len(s)))
       IN left \o SelectSeq(right, LAMBDA x : x \notin Range(left))

\* Integer square root (floor), by Newton's iteration.
RECURSIVE SqrtIter(_, _)
SqrtIter(n, x) == LET y == (x + n \div x) \div 2 IN IF y >= x THEN x ELSE SqrtIter(n, y)

ISqrt(n) == IF n <= 0 THEN 0 ELSE SqrtIter(n, n)

\* String.prototype.slice(0, n)
Slice(s, n) == SubSeq(s, 1, Min2(Len(s), n))

\* ---------------------------------------------------------- characters --

Lowers == <<"a","b","c","d","e","f","g","h","i","j","k","l","m","n","o","p","q","r","s","t","u","v","w","x","y","z">>

Uppers == <<"A","B","C","D","E","F","G","H","I","J","K","L","M","N","O","P","Q","R","S","T","U","V","W","X","Y","Z">>

Digits == {"0","1","2","3","4","5","6","7","8","9"}

\* Three characters of the ranges U+4E00-U+9FFF and U+3400-U+4DBF.
CjkChars == {"zh1", "zh2", "zh3"}

ToLowerChar(c) == IF c \in Range(Uppers) THEN Lowers[IndexOf(Uppers, c)] ELSE c

ToLowerCase(s) == [i \in 1..Len(s) |-> ToLowerChar(s[i])]

IsAlnum(c) == c \in Range(Lowers) \/ c \in Digits

IsSpace(c) == c = " "

RECURSIVE TrimLeft(_)
TrimLeft(s) == IF s # <<>> /\ IsSpace(Head(s)) THEN TrimLeft(Tail(s)) ELSE s

RECURSIVE TrimRight(_)
TrimRight(s) == IF s # <<>> /\ IsSpace(s[Len(s)]) THEN TrimRight(SubSeq(s, 1, Len(s) - 1)) ELSE s

Trim(s) == TrimRight(TrimLeft(s))

\* text.replace(/[chars]/g, " ")
ReplaceWithSpace(s, chars) == [i \in 1..Len(s) |-> IF s[i] \in chars THEN " " ELSE s[i]]

\* ------------------------------------------------------------ tokenize --

\* normalized.match(/[a-z0-9]+/g): the maximal alphanumeric runs, left to right.
RECURSIVE AlnumRuns(_)
AlnumRuns(s) ==
  IF Len(s) <= 1 THEN (IF s # <<>> /\ IsAlnum(s[1]) THEN <<s>> ELSE <<>>)
  ELSE LET m == Len(s) \div 2
           left == AlnumRuns(SubSeq(s, 1, m))
           right == AlnumRuns(SubSeq(s, m + 1, Len(s)))
       IN IF IsAlnum(s[m]) /\ IsAlnum(s[m + 1])
          THEN SubSeq(left, 1, Len(left) - 1) \o <<left[Len(left)] \o right[1]>> \o Tail(right)
          ELSE left \o right

\* normalized.match(/[\u4e00-\u9fff\u3400-\u4dbf]/g): the CJK characters, in order.
CjkMatches(s) == SelectSeq(s, LAMBDA c : c \in CjkChars)

tokenize(text) ==
  LET normalized == Trim(ToLowerCase(text))
      words == AlnumRuns(normalized)
      cjk == CjkMatches(normalized)
      singles == [i \in 1..Len(cjk) |-> <<cjk[i]>>]
      bigrams == IF Len(cjk) < 2 THEN <<>> ELSE [i \in 1..(Len(cjk) - 1) |-> <<cjk[i], cjk[i + 1]>>]
  IN words \o singles \o bigrams

\* ---------------------------------------------------- vocabulary & idf --

\* Math.log on the integers the model meets, in thousandths.
LnMilliTable == <<0, 693, 1099, 1386, 1609, 1792, 1946, 2079, 2197, 2303, 2398, 2485, 2565, 2639, 2708, 2773, 2833, 2890, 2944, 2996>>

\* Math.log(n / d), in thousandths.
LnMilli(n, d) == LnMilliTable[n] - LnMilliTable[d]

\* The module state of embeddings.ts: `vocabulary` (term -> index) and
\* `idfValues` (term -> weight), both empty at load.
EmptyVocabulary == [vocabulary |-> <<>>, idfValues |-> <<>>]

\* buildVocabulary numbering the terms from the last discovered to the first.
buildVocabularyLastFirst(docs) ==
  LET N == Len(docs)
      terms == Dedup(Concat([i \in 1..N |-> Dedup(docs[i])]))
      df(t) == Cardinality({i \in 1..N : t \in Range(docs[i])})
  IN [vocabulary |-> [t \in Range(terms) |-> Len(terms) - IndexOf(terms, t)],
      idfValues |-> [t \in Range(terms) |-> LnMilli(N + 1, df(t) + 1) + 1000]]

\* buildVocabulary with df counting every occurrence of a term.
buildVocabularyCountingRepeats(docs) ==
  LET N == Len(docs)
      terms == Dedup(Concat([i \in 1..N |-> Dedup(docs[i])]))
      df(t) == SumSeq([i \in 1..N |-> Cardinality({j \in 1..Len(docs[i]) : docs[i][j] = t})])
  IN [vocabulary |-> [t \in Range(terms) |-> IndexOf(terms, t) - 1],
      idfValues |-> [t \in Range(terms) |-> LnMilli(N + 1, df(t) + 1) + 1000]]

\* buildVocabulary with the unsmoothed weight ln(N / df).
buildVocabularyPlainIdf(docs) ==
  LET N == Len(docs)
      terms == Dedup(Concat([i \in 1..N |-> Dedup(docs[i])]))
      df(t) == Cardinality({i \in 1..N : t \in Range(docs[i])})
  IN [vocabulary |-> [t \in Range(terms) |-> IndexOf(terms, t) - 1],
      idfValues |-> [t \in Range(terms) |-> LnMilli(N, df(t))]]

\* The state buildVocabulary(docs) leaves in the module.
buildVocabulary(docs) ==
  LET N == Len(docs)
      terms == Dedup(Concat([i \in 1..N |-> Dedup(docs[i])]))
      df(t) == Cardinality({i \in 1..N : t \in Range(docs[i])})
  IN [vocabulary |-> [t \in Range(terms) |-> IndexOf(terms, t) - 1],
      idfValues |-> [t \in Range(terms) |-> LnMilli(N + 1, df(t) + 1) + 1000]]

getVocabSize(V) == Cardinality(DOMAIN V.vocabulary)

\* idfValues.get(term) || 1
IdfOrOne(V, t) == IF t \in DOMAIN V.idfValues /\ V.idfValues[t] # 0 THEN V.idfValues[t] ELSE 1000

\* vectorize with a token that is not in the vocabulary counted on index 0.
vectorizeUnknownAtZero(tokens, V) ==
  LET dim == getVocabSize(V)
      idx(t) == IF t \in DOMAIN V.vocabulary THEN V.vocabulary[t] ELSE 0
      tf(t) == Cardinality({i \in 1..Len(tokens) : tokens[i] = t})
      counts == {tf(t) : t \in Range(tokens)}
      maxTf == CHOOSE m \in counts \cup {1} : \A c \in counts \cup {1} : c <= m
      raw == [i \in 1..dim |->
                LET hit == {t \in Range(tokens) : idx(t) = i - 1}
                IN IF hit = {} THEN 0
                   ELSE LET t == CHOOSE u \in hit : TRUE IN (tf(t) * IdfOrOne(V, t)) \div maxTf]
      norm == ISqrt(SumSeq([i \in 1..dim |-> raw[i] * raw[i]]))
  IN IF dim = 0 THEN <<>>
     ELSE IF norm > 0 THEN [i \in 1..dim |-> (raw[i] * 1000) \div norm]
     ELSE raw

\* vectorize returning no vector when no token is in the vocabulary.
vectorizeEmptyOnNoHit(tokens, V) ==
  LET dim == getVocabSize(V)
      tf(t) == Cardinality({i \in 1..Len(tokens) : tokens[i] = t})
      counts == {tf(t) : t \in Range(tokens)}
      maxTf == CHOOSE m \in counts \cup {1} : \A c \in counts \cup {1} : c <= m
      raw == [i \in 1..dim |->
                LET hit == {t \in Range(tokens) : t \in DOMAIN V.vocabulary /\ V.vocabulary[t] = i - 1}
                IN IF hit = {} THEN 0
                   ELSE LET t == CHOOSE u \in hit : TRUE IN (tf(t) * IdfOrOne(V, t)) \div maxTf]
      norm == ISqrt(SumSeq([i \in 1..dim |-> raw[i] * raw[i]]))
  IN IF dim = 0 \/ Range(tokens) \cap DOMAIN V.vocabulary = {} THEN <<>>
     ELSE IF norm > 0 THEN [i \in 1..dim |-> (raw[i] * 1000) \div norm]
     ELSE raw

\* vectorize(tokens) under the module state V: term frequency over the largest
\* one, times idf, L2-normalised.  vec starts with dim zeros; an assignment to
\* vec[idx] with idx >= dim would lengthen the array, its holes making the norm
\* NaN so that nothing is normalised (a hole is written 0 here).
vectorize(tokens, V) ==
  LET dim == getVocabSize(V)
      tf(t) == Cardinality({i \in 1..Len(tokens) : tokens[i] = t})
      counts == {tf(t) : t \in Range(tokens)}
      maxTf == CHOOSE m \in counts \cup {1} : \A c \in counts \cup {1} : c <= m
      written == {V.vocabulary[t] + 1 : t \in Range(tokens) \cap DOMAIN V.vocabulary}
      len == CHOOSE n \in written \cup {dim} : \A k \in written \cup {dim} : k <= n
      raw == [i \in 1..len |->
                LET hit == {t \in Range(tokens) : t \in DOMAIN V.vocabulary /\ V.vocabulary[t] = i - 1}
                IN IF hit = {} THEN 0
                   ELSE LET t == CHOOSE u \in hit : TRUE IN (tf(t) * IdfOrOne(V, t)) \div maxTf]
      holes == \E i \in (dim + 1)..len : i \notin written
      norm == ISqrt(SumSeq([i \in 1..len |-> raw[i] * raw[i]]))
  IN IF dim = 0 THEN <<>>
     ELSE IF norm > 0 /\ ~holes THEN [i \in 1..len |-> (raw[i] * 1000) \div norm]
     ELSE raw

exportVocab(V) ==
  LET n == getVocabSize(V)
      termAt(i) == CHOOSE t \in DOMAIN V.vocabulary : V.vocabulary[t] = i - 1
  IN [terms |-> [i \in 1..n |-> termAt(i)],
      idf |-> [i \in 1..n |-> IdfOrOne(V, termAt(i))]]

\* importVocab giving every term the weight 1.
importVocabFlatIdf(snapshot) ==
  LET last(t) == CHOOSE i \in 1..Len(snapshot.terms) : snapshot.terms[i] = t /\ \A j \in (i + 1)..Len(snapshot.terms) : snapshot.terms[j] # t
  IN [vocabulary |-> [t \in Range(snapshot.terms) |-> last(t) - 1],
      idfValues |-> [t \in Range(snapshot.terms) |-> 1000]]

\* The state importVocab(snapshot) leaves in the module: a later duplicate of a
\* term overwrites the earlier index and weight.
importVocab(snapshot) ==
  LET last(t) == CHOOSE i \in 1..Len(snapshot.terms) : snapshot.terms[i] = t /\ \A j \in (i + 1)..Len(snapshot.terms) : snapshot.terms[j] # t
  IN [vocabulary |-> [t \in Range(snapshot.terms) |-> last(t) - 1],
      idfValues |-> [t \in Range(snapshot.terms) |-> snapshot.idf[last(t)]]]

\* ------------------------------------------------------ similarity search --

\* A JavaScript number: an integer of thousandths, or NaN.
Num(v) == [nan |-> FALSE, v |-> v]

NaN == [nan |-> TRUE, v |-> 0]

\* b - a of the sort comparators; NaN when either side is NaN.
NumSub(b, a) == IF a.nan \/ b.nan THEN NaN ELSE Num(b.v - a.v)

\* x > 0; false for NaN.
NumPositive(x) == ~x.nan /\ x.v > 0

\* cosine(a, b) of vectordb.ts.  The loop runs over a's indices: where b is
\* shorter, b[i] is undefined and dot and normB become NaN; where b is longer its
\* tail is ignored.
cosine(a, b) ==
  LET n == Len(a)
      short == Len(b) < n
      m == Min2(n, Len(b))
      dot == SumSeq([i \in 1..m |-> a[i] * b[i]])
      normA == SumSeq([i \in 1..n |-> a[i] * a[i]])
      normB == SumSeq([i \in 1..m |-> b[i] * b[i]])
  IN IF normA = 0 \/ (~short /\ normB = 0) THEN Num(0)
     ELSE IF short THEN NaN
     ELSE Num((dot * 1000) \div (ISqrt(normA) * ISqrt(normB)))

\* The comparison of a sort that moves an element in front of its equals.
ScoreBeforeOrEqual(x, y) == LET d == NumSub(y.score, x.score) IN ~d.nan /\ d.v <= 0

\* Array.prototype.sort((a, b) => b.score - a.score): a stable insertion sort;
\* x moves in front of y only when the comparator is negative for (x, y).
ScoreBefore(x, y) == LET d == NumSub(y.score, x.score) IN ~d.nan /\ d.v < 0

RECURSIVE InsertDesc(_, _)
InsertDesc(s, x) ==
  IF s = <<>> THEN <<x>>
  ELSE IF ScoreBefore(x, s[Len(s)]) THEN Append(InsertDesc(SubSeq(s, 1, Len(s) - 1), x), s[Len(s)])
  ELSE Append(s, x)

RECURSIVE SortDesc(_)
SortDesc(s) == IF s = <<>> THEN <<>> ELSE InsertDesc(SortDesc(SubSeq(s, 1, Len(s) - 1)), s[Len(s)])

\* search cutting to topN before it sorts.
searchCutFirst(queryVector, topN, all) ==
  LET scored == [i \in 1..Len(all) |-> [record |-> all[i], score |-> cosine(queryVector, all[i].vector)]]
  IN SelectSeq(SortDesc(Slice(scored, topN)), LAMBDA r : NumPositive(r.score))

\* search(queryVector, topN) over the records getAll returned.
search(queryVector, topN, all) ==
  LET scored == [i \in 1..Len(all) |-> [record |-> all[i], score |-> cosine(queryVector, all[i].vector)]]
  IN SelectSeq(Slice(SortDesc(scored), topN), LAMBDA r : NumPositive(r.score))

\* ------------------------------------------------------------- ranking --

OverFetch == 15

TopN == 5

DecayDays == 90

PathSeparators == {"/", "\\", ".", "_", "-"}

\* computePathNameScore dividing by the number of the context's tokens.
computePathNameScoreOverContext(filePath, context) ==
  LET pathTokens == tokenize(ReplaceWithSpace(filePath, PathSeparators))
      contextTokens == Range(tokenize(context))
      matches == Cardinality({i \in 1..Len(pathTokens) : pathTokens[i] \in contextTokens})
  IN IF Len(pathTokens) = 0 \/ contextTokens = {} THEN 0
     ELSE (matches * 1000) \div Cardinality(contextTokens)

computePathNameScore(filePath, context) ==
  LET pathTokens == tokenize(ReplaceWithSpace(filePath, PathSeparators))
      contextTokens == Range(tokenize(context))
      matches == Cardinality({i \in 1..Len(pathTokens) : pathTokens[i] \in contextTokens})
  IN IF Len(pathTokens) = 0 \/ contextTokens = {} THEN 0
     ELSE (matches * 1000) \div Len(pathTokens)

\* historyMap.get(id): the entries of `hist` that reference id, as a count and
\* the latest time stamp; NoHist when there is none.
NoHist == [count |-> 0, lastTs |-> 0]

HistoryMapGet(hist, id) ==
  LET mine == {i \in 1..Len(hist) : hist[i].fileId = id}
  IN IF mine = {} THEN NoHist
     ELSE [count |-> Cardinality(mine),
           lastTs |-> CHOOSE t \in {hist[i].timestamp : i \in mine} : \A i \in mine : hist[i].timestamp <= t]

\* The boost growing with the days since the last use.
HistoryBoostGrowing(nowTs, lastTs) == Max2(100, ((nowTs - lastTs) * 1000) \div DecayDays)

\* The boost without its floor of 0.1.
HistoryBoostNoFloor(nowTs, lastTs) == Max2(0, 1000 - ((nowTs - lastTs) * 1000) \div DecayDays)

\* Math.max(0.1, 1.0 - daysAgo / 90), time stamps being whole days.
HistoryBoost(nowTs, lastTs) == Max2(100, 1000 - ((nowTs - lastTs) * 1000) \div DecayDays)

\* One element of `ranked`: the re-scored candidate r.
Rerank(r, hist, context, nowTs) ==
  LET tfidfScore == r.score.v
      h == HistoryMapGet(hist, r.record.id)
      historyBoost == IF h.count > 0 THEN HistoryBoost(nowTs, h.lastTs) ELSE 0
      historyCount == h.count
      pathNameScore == computePathNameScore(r.record.id, context)
      hasHistory == historyBoost > 0
      finalScore == IF hasHistory THEN tfidfScore * 500 + historyBoost * 350 + pathNameScore * 150
                    ELSE tfidfScore * 750 + pathNameScore * 250
  IN [record |-> r.record, score |-> Num(finalScore), historyCount |-> historyCount,
      tfidf |-> tfidfScore, boost |-> historyBoost, pathName |-> pathNameScore, hasHistory |-> hasHistory]

\* ranked cut to five without being sorted.
RankTopUnsorted(results, hist, context, nowTs) ==
  LET ranked == [i \in 1..Len(results) |-> Rerank(results[i], hist, context, nowTs)]
  IN SelectSeq(Slice(ranked, TopN), LAMBDA r : NumPositive(r.score))

\* ranked, sorted, cut to five, non-positive scores dropped.
RankTop(results, hist, context, nowTs) ==
  LET ranked == [i \in 1..Len(results) |-> Rerank(results[i], hist, context, nowTs)]
  IN SelectSeq(Slice(SortDesc(ranked), TopN), LAMBDA r : NumPositive(r.score))

\* ------------------------------------------------------------ universe --

MaxEdits == 1

MaxPasses == 1

MaxScans == 1

MaxMatches == 1

MaxHistory == 2

MaxAlarms == 2

MaxConfigChanges == 2

MaxUses == 2

MaxClicks == 3

\* MAX_LOG_ENTRIES of workflow.ts (500 there).
MAX_LOG_ENTRIES == 3

MaxLogged == 3

MaxTexts == 4

MaxBatchSize == 3

\* The folder: two text files, in directory (and key) order.
PathCv == <<"c", "v", ".", "m", "d">>

PathId == <<"i", "d", ".", "m", "d">>

PathOrder == <<PathCv, PathId>>

Paths == Range(PathOrder)

\* What a file may hold.
Contents == {<<"C", "v">>, <<"t", "a", "x", " ", "i", "d">>}

InitialFs == (PathCv :> [size |-> 2, lastModified |-> 1, content |-> <<"C", "v">>]) @@ (PathId :> [size |-> 6, lastModified |-> 1, content |-> <<"t", "a", "x", " ", "i", "d">>])

\* The upload contexts of the requests: one that shares terms with the files, one
\* whose every token is out of vocabulary, and the empty one.
Contexts == {<<"c", "v", " ", "t", "a", "x">>, <<"Q", "q">>, <<>>}

Hosts == {"jobs.example", "tax.example"}

\* req.pageUrl: "none" for one that is absent or does not parse as a URL, or a
\* URL of one of the hosts.
PageUrls == {"none"} \cup Hosts

Days == <<0, 60, 120>>

\* The request that runs beside indexing: its context and its page.
SpecContext == <<"c", "v", " ", "t", "a", "x">>

SpecUrl == "jobs.example"

\* A finite map as a function on a subset of the keys.
Put(f, k, v) == [q \in DOMAIN f \cup {k} |-> IF q = k THEN v ELSE f[q]]

Del(f, k) == [q \in DOMAIN f \ {k} |-> f[q]]

EmptyMap == <<>>

\* The files of a larger folder: up to MaxExtraFiles files beside cv.md and
\* id.md, in the directory cv/ or at the top.
MaxExtraFiles == 15

KeyLetters == <<"a", "b", "c", "d", "e", "f", "g", "h", "i", "j", "k", "l", "m", "n", "o", "p", "q", "r", "s", "t">>

NoiseId(k) == <<"c", "v", "/", "z", KeyLetters[k], ".", "m", "d">>

FormId(k) == <<"f", KeyLetters[k], ".", "m", "d">>

\* Every path in key order (the order of strings).
KeyOrder == <<PathCv>> \o [k \in 1..Len(KeyLetters) |-> NoiseId(k)] \o [k \in 1..Len(KeyLetters) |-> FormId(k)] \o <<PathId>>

\* The keys of f in key order (IndexedDB getAll, Map insertion order of a Map
\* built from getAll, and the directory iteration).
KeysInOrder(f) == SelectSeq(KeyOrder, LAMBDA p : p \in DOMAIN f)

\* ------------------------------------------------------ text extraction --

ExtractLimit == 2000

PreviewLen == 100

TextExts == {<<"t","x","t">>, <<"m","d">>, <<"c","s","v">>, <<"j","s","o","n">>, <<"x","m","l">>, <<"h","t","m","l">>, <<"h","t","m">>, <<"j","s">>, <<"t","s">>, <<"p","y">>, <<"j","a","v","a">>, <<"c">>, <<"c","p","p">>, <<"c","s","s">>, <<"l","o","g">>, <<"y","a","m","l">>, <<"y","m","l">>, <<"t","o","m","l">>, <<"i","n","i">>, <<"r","t","f">>}

\* name.split(sep).pop()
RECURSIVE AfterLast(_, _)
AfterLast(s, sep) == IF sep \in Range(s) THEN AfterLast(Tail(s), sep) ELSE s

FileName(path) == AfterLast(path, "/")

FileExt(name) == ToLowerCase(AfterLast(name, "."))

\* extractText(file) of embeddings.ts (the popup's).  No path of the universe is
\* a PDF, so the PDF branch is left at its fallback, the name.
extractText(path, file) ==
  LET name == ReplaceWithSpace(FileName(path), {".", "_", "-"})
  IN IF FileExt(FileName(path)) \in TextExts THEN name \o <<" ">> \o Slice(file.content, ExtractLimit)
     ELSE name

\* extractFileText(file, filePath) of content.ts (the content script's).
extractFileText(path, file) ==
  LET pathKeywords == ReplaceWithSpace(path, PathSeparators)
  IN IF FileExt(FileName(path)) \in TextExts THEN pathKeywords \o <<" ">> \o Slice(file.content, ExtractLimit)
     ELSE pathKeywords

\* The DocEntry / FileEntry built from a file that was read.
DocEntry(path, file, text) == [path |-> path, size |-> file.size, lastModified |-> file.lastModified, text |-> text]

\* The VectorRecord of a document, vectorized under V.  `model` is not a field of
\* the program's record: it remembers the vocabulary the vector was computed under.
VectorRecord(d, tokens, V) ==
  [id |-> d.path, size |-> d.size, lastModified |-> d.lastModified,
   vector |-> vectorize(tokens, V), textPreview |-> Slice(d.text, PreviewLen), model |-> V]

\* --------------------------------------------------------------- state --

VARIABLES
  fs,        \* the user's folder: path -> [size, lastModified, content]
  edits,     \* how many times the user changed the folder
  store,     \* IndexedDB "files": id -> VectorRecord
  idbVocab,  \* IndexedDB "vocabulary": <<>> or <<snapshot>>
  csVocab,   \* chrome.storage.local "vocab": <<>> or <<snapshot>>
  dirHandle, \* IndexedDB "dir_handles": whether a directory handle is stored
  history,   \* IndexedDB "upload_history", in insertion order
  now,       \* Date.now(), an index into Days
  bgVocab,   \* the background's embeddings.ts module state
  popup,     \* the popup page: its buildIndex invocation and its embeddings.ts state
  csPending, \* the popup's chrome.storage.local.set not yet completed: <<>> or <<snapshot>>
  inbox,     \* messages sent to the background and not yet handled
  build,     \* the background's handleBuildIndex invocation
  ensure,    \* the ensureVocab() call made when the background loads
  reload,    \* the background's VOCAB_UPDATED handler
  match,     \* the background's handleMatch invocation
  passes,    \* passes started from the popup so far
  scans,     \* inline scans made by a content script so far
  matches,   \* MATCH_REQUESTs sent so far
  alarm,     \* the background's chrome.alarms onAlarm handler
  cs,        \* a content script's recommendation flow (handleRecommend, doMatch)
  rescan,    \* the Rescan Configuration: the stored record, the popup's controls, and the two updaters
  embed,     \* an invocation of batchEmbed (apiEmbeddings.ts) and its embedding requests
  setup,     \* setupRescanAlarm: the "xupload-rescan" alarm and the invocations in flight
  page,      \* the page's panels and the flows of the content script that are awaiting
  log        \* the workflow logger of one context: logBuffer, persister, flushTimer and the timers set

vars == <<fs, edits, store, idbVocab, csVocab, dirHandle, history, now, bgVocab, popup, csPending, inbox, build, ensure, reload, match, passes, scans, matches, alarm, cs, rescan, embed, setup, page, log>>

\* The popup page with no pass running.  extracted, wrote, upserted, saved,
\* fsAtCollect and idbAtStart are not program state: they record what the pass
\* did (the files it extracted, whether it wrote to the store, the upserts that
\* resolved, whether saveVocab resolved) and what it started from.
PopupClosed ==
  [pc |-> "idle", disabled |-> FALSE, incremental |-> FALSE, vocab |-> EmptyVocabulary,
   entries |-> <<>>, existingMap |-> EmptyMap, i |-> 0, docs |-> <<>>, unchangedDocs |-> <<>>,
   extracted |-> <<>>, toDelete |-> <<>>, deleted |-> 0, allTokens |-> <<>>, pending |-> <<>>,
   vocabOut |-> <<>>, wrote |-> FALSE, upserted |-> 0, saved |-> FALSE, total |-> 0,
   fsAtCollect |-> EmptyMap, idbAtStart |-> <<>>]

BuildIdle ==
  [pc |-> "idle", files |-> <<>>, allTokens |-> <<>>, i |-> 0, pending |-> <<>>, vocabOut |-> <<>>,
   wrote |-> FALSE, upserted |-> 0, saved |-> FALSE, responded |-> FALSE, count |-> 0]

MatchIdle ==
  [pc |-> "idle", context |-> <<>>, pageUrl |-> "none", queryVec |-> <<>>, queryModel |-> <<>>,
   scored |-> <<>>, results |-> <<>>, top |-> <<>>, responded |-> FALSE]

\* The Rescan Configuration before any update: the stored record (the store
\* replaces it whole on saveRescanConfig), the popup's checkbox and select as
\* loadRescanConfig set them, and saveCurrentRescanConfig (save) and
\* updateLastScanTimestamp (stamp) not running, each with its local `config`.
\* stamp.pass is the pass that called updateLastScanTimestamp last.
RescanIdle ==
  [stored |-> [autoRescanEnabled |-> TRUE, rescanIntervalMin |-> 30, lastScanTimestamp |-> 0],
   checkbox |-> TRUE, select |-> 30, changes |-> 0,
   save |-> [pc |-> "idle", config |-> <<>>],
   stamp |-> [pc |-> "idle", config |-> <<>>, pass |-> 0]]

\* A content script with no recommendation asked for.  capture and enhanced
\* record how CAPTURE_TAB and MATCH_REQUEST_ENHANCED ended, sentMatch whether
\* MATCH_REQUEST was sent and req how many requests the background had taken
\* when it was; panel and items are what showPanel was given; selected is the
\* file of the preview and useDisabled its button's state.  uses, confirmed and
\* sends count the clicks on "Use this file", those whose fill succeeded, and
\* the TRACK_UPLOAD messages sent.
CsIdle ==
  [pc |-> "idle", context |-> <<>>, capture |-> "none", enhanced |-> "none",
   sentMatch |-> FALSE, req |-> 0, panel |-> "none", items |-> <<>>,
   selected |-> <<>>, useDisabled |-> FALSE, uses |-> 0, confirmed |-> 0, sends |-> 0]

\* The onAlarm handler with no alarm handled yet: where it stands, how it last
\* ended, the badge text of the extension's icon, and the alarms fired so far.
AlarmIdle == [pc |-> "idle", outcome |-> "none", badge |-> "", fired |-> 0]

\* batchEmbed not called yet: the number of its texts and its batchSize, the
\* loop index i, the getEmbedding calls that have not settled (position of the
\* text -> the await the call stands at), the embeddings of the calls of the
\* running batch that resolved, `results`, and the done counts given to
\* onProgress so far.
EmbedIdle ==
  [pc |-> "idle", total |-> 0, batchSize |-> 0, i |-> 0, requests |-> EmptyMap,
   embeddings |-> EmptyMap, results |-> <<>>, reports |-> <<>>]

\* A page with no panel and no flow of the content script in flight.  panels
\* are the panel elements created so far, in creation order: the kind (scan
\* prompt, list of showPanel, preview), whether the element is attached to the
\* document, its closeHandler (the timer that will register it, registered on
\* the document, or not), the results listed (the file shown, for a preview),
\* whether its button (scan, use) is disabled, and whether the 600 ms timer of
\* a fill is pending.  flows are the async functions standing at an await: the
\* await, the caller of doMatch (handleRecommend, the scan button's handler,
\* Back) or "item" for a result's click handler, the panel of the handler, and
\* the result clicked.  clicks counts the clicks that started a flow, uses the
\* clicks on "Use this file".
PageIdle == [panels |-> <<>>, flows |-> <<>>, clicks |-> 0, uses |-> 0]

\* The logger of a context just loaded: an empty logBuffer, no persister, no
\* flushTimer.  timers counts the time-outs set by schedulePersist that have
\* not fired, logged the entries logged so far.  entered, owed, handed and
\* snapshot are not program state: the list loadPersistedLogs was last given
\* followed by the entries logged since, the entries logged with a persister
\* set, the entries the persister was given so far, and the list it was given
\* last.
LogIdle ==
  [buffer |-> <<>>, persister |-> FALSE, flushTimer |-> FALSE, timers |-> 0, logged |-> 0,
   entered |-> <<>>, owed |-> {}, handed |-> {}, snapshot |-> <<>>]

\* The background module was just evaluated: no alarm is set and the module's
\* own call of setupRescanAlarm awaits chrome.alarms.clear.  Invocations differ
\* only in the await they stand at, so they are counted: `clearing` await
\* chrome.alarms.clear, `reading` await getRescanConfig.  `events` are the
\* lifecycle events delivered, `messages` the RESCAN_CONFIG_UPDATED received.
SetupIdle == [alarm |-> <<>>, clearing |-> 1, reading |-> 0, events |-> {}, messages |-> 0]

\* What an earlier session left when the popup indexed the folder as it is:
\* the documents, their vocabulary, and the records.
IndexedDocs == [k \in 1..Len(PathOrder) |-> DocEntry(PathOrder[k], InitialFs[PathOrder[k]], extractText(PathOrder[k], InitialFs[PathOrder[k]]))]

IndexedVocab == buildVocabulary([k \in 1..Len(IndexedDocs) |-> tokenize(IndexedDocs[k].text)])

IndexedStore ==
  [p \in Paths |-> LET k == IndexOf(PathOrder, p)
                   IN VectorRecord(IndexedDocs[k], tokenize(IndexedDocs[k].text), IndexedVocab)]

\* The extension starts: the popup is opened and the background is loaded, on a
\* fresh installation or on what an earlier session indexed.
Init ==
  /\ fs = InitialFs
  /\ edits = 0
  /\ \/ /\ store = EmptyMap
        /\ idbVocab = <<>>
        /\ csVocab = <<>>
        /\ dirHandle = FALSE
     \/ /\ store = IndexedStore
        /\ idbVocab = <<exportVocab(IndexedVocab)>>
        /\ csVocab = <<exportVocab(IndexedVocab)>>
        /\ dirHandle = TRUE
  /\ history = <<>>
  /\ now = 1
  /\ bgVocab = EmptyVocabulary
  /\ popup = PopupClosed
  /\ csPending = <<>>
  /\ inbox = {}
  /\ build = BuildIdle
  /\ ensure = [pc |-> "getVocab"]
  /\ reload = [pc |-> "idle"]
  /\ match = MatchIdle
  /\ passes = 0
  /\ scans = 0
  /\ matches = 0
  /\ alarm = AlarmIdle
  /\ cs = CsIdle
  /\ rescan = RescanIdle
  /\ embed = EmbedIdle
  /\ setup = SetupIdle
  /\ page = PageIdle
  /\ log = LogIdle

\* ------------------------------------------------------- the user's folder --

\* The user writes a file (new or existing): new content, size and mtime.
EditFile(p, c) ==
  /\ edits < MaxEdits
  /\ fs' = Put(fs, p, [size |-> Len(c), lastModified |-> edits + 2, content |-> c])
  /\ edits' = edits + 1
  /\ UNCHANGED <<store, idbVocab, csVocab, dirHandle, history, now, bgVocab, popup, csPending, inbox, build, ensure, reload, match, passes, scans, matches, alarm, cs, rescan, embed, setup, page, log>>

RemoveFile(p) ==
  /\ edits < MaxEdits
  /\ p \in DOMAIN fs
  /\ fs' = Del(fs, p)
  /\ edits' = edits + 1
  /\ UNCHANGED <<store, idbVocab, csVocab, dirHandle, history, now, bgVocab, popup, csPending, inbox, build, ensure, reload, match, passes, scans, matches, alarm, cs, rescan, embed, setup, page, log>>

\* ------------------------------------------------- popup.ts: buildIndex --

\* The synchronous code of buildIndex from one await to the next, as the popup's
\* state after it; each takes the state pp at the moment the await resolved.

\* Phase 4: exportVocab() and the call of saveVocab.
PopupToSaveVocab(pp) == [pp EXCEPT !.pc = "saveVocab", !.pending = <<>>, !.vocabOut = <<exportVocab(pp.vocab)>>]

\* The loop over unchangedDocs left out.
PopupToUnchangedSkipped(pp, k) == PopupToSaveVocab(pp)

\* The loop over unchangedDocs from index k: vectorize and call upsert.
PopupToUnchanged(pp, k) ==
  IF pp.incremental /\ k <= Len(pp.unchangedDocs)
  THEN LET d == pp.unchangedDocs[k]
           existing == pp.existingMap[d.path]
       IN [pp EXCEPT !.pc = "upsertUnchanged", !.i = k,
                     !.pending = <<[existing EXCEPT !.vector = vectorize(pp.allTokens[Len(pp.docs) + k], pp.vocab), !.model = pp.vocab]>>]
  ELSE PopupToSaveVocab(pp)

\* The loop over docs from index k: vectorize and call upsert.
PopupToDocs(pp, k) ==
  IF k <= Len(pp.docs)
  THEN [pp EXCEPT !.pc = "upsertDoc", !.i = k, !.pending = <<VectorRecord(pp.docs[k], pp.allTokens[k], pp.vocab)>>]
  ELSE PopupToUnchanged(pp, 1)

\* buildIndex without the no-change exit.
PopupAfterDeleteNoExit(pp) ==
  LET allDocs == pp.docs \o pp.unchangedDocs
      allTokens == [k \in 1..Len(allDocs) |-> tokenize(allDocs[k].text)]
      built == [pp EXCEPT !.allTokens = allTokens, !.vocab = buildVocabulary(allTokens)]
  IN IF ~pp.incremental THEN [built EXCEPT !.pc = "clearAll"] ELSE PopupToDocs(built, 1)

\* After the deletions: the no-change exit, or phase 2 (buildVocabulary over
\* docs followed by unchangedDocs) and the start of phase 3.
PopupAfterDelete(pp) ==
  IF pp.incremental /\ Len(pp.docs) = 0 /\ pp.deleted = 0
  THEN [pp EXCEPT !.pc = "noChange", !.disabled = FALSE]
  ELSE LET allDocs == pp.docs \o pp.unchangedDocs
           allTokens == [k \in 1..Len(allDocs) |-> tokenize(allDocs[k].text)]
           built == [pp EXCEPT !.allTokens = allTokens, !.vocab = buildVocabulary(allTokens)]
       IN IF ~pp.incremental THEN [built EXCEPT !.pc = "clearAll"] ELSE PopupToDocs(built, 1)

\* After the read loop: the stored ids that were not enumerated are deleted.
PopupAfterRead(pp) ==
  LET gone == SelectSeq(KeysInOrder(pp.existingMap), LAMBDA id : id \notin Range(pp.entries))
  IN IF pp.incremental /\ gone # <<>> THEN [pp EXCEPT !.pc = "delete", !.toDelete = gone]
     ELSE PopupAfterDelete(pp)

\* The read loop from index k: the call of fileHandle.getFile().
PopupToRead(pp, k) == IF k <= Len(pp.entries) THEN [pp EXCEPT !.pc = "read", !.i = k] ELSE PopupAfterRead(pp)

\* "Select folder": the picker returns the folder and buildIndex(dirHandle, false) starts.
\* "Rescan": the stored handle is read and buildIndex(dirHandle, true) starts.
PopupClick(incremental) ==
  /\ popup.pc \in {"idle", "done"}
  /\ ~popup.disabled
  /\ incremental => dirHandle
  /\ passes < MaxPasses
  /\ passes' = passes + 1
  /\ popup' = [PopupClosed EXCEPT !.pc = "collect", !.disabled = TRUE, !.incremental = incremental, !.vocab = popup.vocab, !.idbAtStart = idbVocab]
  /\ UNCHANGED <<fs, edits, store, idbVocab, csVocab, dirHandle, history, now, bgVocab, csPending, inbox, build, ensure, reload, match, scans, matches, alarm, cs, rescan, embed, setup, page, log>>

\* collectFiles resolves; saveDirectoryHandle is called.
PopupCollect ==
  /\ popup.pc = "collect"
  /\ popup' = [popup EXCEPT !.pc = "saveHandle", !.entries = KeysInOrder(fs), !.fsAtCollect = fs]
  /\ UNCHANGED <<fs, edits, store, idbVocab, csVocab, dirHandle, history, now, bgVocab, csPending, inbox, build, ensure, reload, match, passes, scans, matches, alarm, cs, rescan, embed, setup, page, log>>

\* saveDirectoryHandle resolves; getAll is called (incremental) or the read loop starts.
PopupSaveHandle ==
  /\ popup.pc = "saveHandle"
  /\ dirHandle' = TRUE
  /\ popup' = IF popup.incremental THEN [popup EXCEPT !.pc = "getAll"] ELSE PopupToRead(popup, 1)
  /\ UNCHANGED <<fs, edits, store, idbVocab, csVocab, history, now, bgVocab, csPending, inbox, build, ensure, reload, match, passes, scans, matches, alarm, cs, rescan, embed, setup, page, log>>

\* getAll resolves with the stored records.
PopupGetAll ==
  /\ popup.pc = "getAll"
  /\ popup' = PopupToRead([popup EXCEPT !.existingMap = store], 1)
  /\ UNCHANGED <<fs, edits, store, idbVocab, csVocab, dirHandle, history, now, bgVocab, csPending, inbox, build, ensure, reload, match, passes, scans, matches, alarm, cs, rescan, embed, setup, page, log>>

\* The read loop's body without the comparison with the stored record.
PopupClassifyAlways(pp, path, file) ==
  [pp EXCEPT !.docs = Append(@, DocEntry(path, file, extractText(path, file))),
             !.extracted = Append(@, DocEntry(path, file, <<>>))]

\* The body of the read loop for a file that getFile returned: an unchanged file
\* is kept with its stored preview, any other file has its text extracted.
PopupClassify(pp, path, file) ==
  IF /\ pp.incremental
     /\ path \in DOMAIN pp.existingMap
     /\ pp.existingMap[path].size = file.size
     /\ pp.existingMap[path].lastModified = file.lastModified
  THEN [pp EXCEPT !.unchangedDocs = Append(@, DocEntry(path, file, pp.existingMap[path].textPreview))]
  ELSE [pp EXCEPT !.docs = Append(@, DocEntry(path, file, extractText(path, file))),
                  !.extracted = Append(@, DocEntry(path, file, <<>>))]

\* getFile (and extractText) resolve for entries[i]; getFile throws for a file
\* that is gone, and the entry is skipped.
PopupRead ==
  /\ popup.pc = "read"
  /\ LET path == popup.entries[popup.i]
     IN popup' = IF path \in DOMAIN fs THEN PopupToRead(PopupClassify(popup, path, fs[path]), popup.i + 1)
                 ELSE PopupToRead(popup, popup.i + 1)
  /\ UNCHANGED <<fs, edits, store, idbVocab, csVocab, dirHandle, history, now, bgVocab, csPending, inbox, build, ensure, reload, match, passes, scans, matches, alarm, cs, rescan, embed, setup, page, log>>

\* getFile throws for entries[i] although the file is there (it cannot be
\* read): the entry is skipped.
PopupReadFails ==
  /\ popup.pc = "read"
  /\ popup.entries[popup.i] \in DOMAIN fs
  /\ popup' = PopupToRead(popup, popup.i + 1)
  /\ UNCHANGED <<fs, edits, store, idbVocab, csVocab, dirHandle, history, now, bgVocab, csPending, inbox, build, ensure, reload, match, passes, scans, matches, alarm, cs, rescan, embed, setup, page, log>>

\* getFile resolves for entries[i], a new or changed file, and file.text() (or
\* the PDF extraction) throws inside extractText, which returns the name alone.
PopupReadTextFails ==
  /\ popup.pc = "read"
  /\ LET path == popup.entries[popup.i]
         name == ReplaceWithSpace(FileName(path), {".", "_", "-"})
     IN /\ path \in DOMAIN fs
        /\ ~(/\ popup.incremental
             /\ path \in DOMAIN popup.existingMap
             /\ popup.existingMap[path].size = fs[path].size
             /\ popup.existingMap[path].lastModified = fs[path].lastModified)
        /\ popup' = PopupToRead([popup EXCEPT !.docs = Append(@, DocEntry(path, fs[path], name)),
                                              !.extracted = Append(@, DocEntry(path, fs[path], <<>>))], popup.i + 1)
  /\ UNCHANGED <<fs, edits, store, idbVocab, csVocab, dirHandle, history, now, bgVocab, csPending, inbox, build, ensure, reload, match, passes, scans, matches, alarm, cs, rescan, embed, setup, page, log>>

\* deleteById resolves for the first id still to delete.
PopupDelete ==
  /\ popup.pc = "delete"
  /\ store' = Del(store, Head(popup.toDelete))
  /\ LET pp == [popup EXCEPT !.toDelete = Tail(@), !.deleted = @ + 1, !.wrote = TRUE]
     IN popup' = IF pp.toDelete # <<>> THEN pp ELSE PopupAfterDelete(pp)
  /\ UNCHANGED <<fs, edits, idbVocab, csVocab, dirHandle, history, now, bgVocab, csPending, inbox, build, ensure, reload, match, passes, scans, matches, alarm, cs, rescan, embed, setup, page, log>>

\* The no-change exit: updateLastScanTimestamp resolves and buildIndex returns.
PopupNoChange ==
  /\ popup.pc = "noChange"
  /\ popup' = [popup EXCEPT !.pc = "done"]
  /\ UNCHANGED <<fs, edits, store, idbVocab, csVocab, dirHandle, history, now, bgVocab, csPending, inbox, build, ensure, reload, match, passes, scans, matches, alarm, cs, rescan, embed, setup, page, log>>

\* clearAll resolves (full build only).
PopupClearAll ==
  /\ popup.pc = "clearAll"
  /\ store' = EmptyMap
  /\ popup' = PopupToDocs([popup EXCEPT !.wrote = TRUE], 1)
  /\ UNCHANGED <<fs, edits, idbVocab, csVocab, dirHandle, history, now, bgVocab, csPending, inbox, build, ensure, reload, match, passes, scans, matches, alarm, cs, rescan, embed, setup, page, log>>

\* upsert resolves for docs[i].
PopupUpsertDoc ==
  /\ popup.pc = "upsertDoc"
  /\ store' = Put(store, popup.pending[1].id, popup.pending[1])
  /\ popup' = PopupToDocs([popup EXCEPT !.wrote = TRUE, !.upserted = @ + 1], popup.i + 1)
  /\ UNCHANGED <<fs, edits, idbVocab, csVocab, dirHandle, history, now, bgVocab, csPending, inbox, build, ensure, reload, match, passes, scans, matches, alarm, cs, rescan, embed, setup, page, log>>

\* upsert resolves for unchangedDocs[i].
PopupUpsertUnchanged ==
  /\ popup.pc = "upsertUnchanged"
  /\ store' = Put(store, popup.pending[1].id, popup.pending[1])
  /\ popup' = PopupToUnchanged([popup EXCEPT !.wrote = TRUE, !.upserted = @ + 1], popup.i + 1)
  /\ UNCHANGED <<fs, edits, idbVocab, csVocab, dirHandle, history, now, bgVocab, csPending, inbox, build, ensure, reload, match, passes, scans, matches, alarm, cs, rescan, embed, setup, page, log>>

\* saveVocab resolves; chrome.storage.local.set is called (not awaited) and
\* updateLastScanTimestamp is called.
PopupSaveVocab ==
  /\ popup.pc = "saveVocab"
  /\ idbVocab' = popup.vocabOut
  /\ csPending' = popup.vocabOut
  /\ popup' = [popup EXCEPT !.pc = "lastScan", !.saved = TRUE]
  /\ UNCHANGED <<fs, edits, store, csVocab, dirHandle, history, now, bgVocab, inbox, build, ensure, reload, match, passes, scans, matches, alarm, cs, rescan, embed, setup, page, log>>

\* updateLastScanTimestamp resolves; getCount is called.
PopupLastScan ==
  /\ popup.pc = "lastScan"
  /\ popup' = [popup EXCEPT !.pc = "getCount"]
  /\ UNCHANGED <<fs, edits, store, idbVocab, csVocab, dirHandle, history, now, bgVocab, csPending, inbox, build, ensure, reload, match, passes, scans, matches, alarm, cs, rescan, embed, setup, page, log>>

\* getCount resolves; the buttons are enabled again and buildIndex returns.
PopupGetCount ==
  /\ popup.pc = "getCount"
  /\ popup' = [popup EXCEPT !.pc = "done", !.disabled = FALSE, !.total = Cardinality(DOMAIN store)]
  /\ UNCHANGED <<fs, edits, store, idbVocab, csVocab, dirHandle, history, now, bgVocab, csPending, inbox, build, ensure, reload, match, passes, scans, matches, alarm, cs, rescan, embed, setup, page, log>>

\* The awaited store operation rejects: buildIndex throws into the click
\* handler's catch, which reports the error.  The locals of buildIndex are
\* gone; the buttons stay disabled and the module keeps its vocabulary.
PopupStoreFails ==
  /\ popup.pc \in {"saveHandle", "getAll", "delete", "clearAll", "upsertDoc", "upsertUnchanged", "saveVocab", "lastScan", "getCount"}
  /\ popup' = [PopupClosed EXCEPT !.pc = "failed", !.disabled = TRUE, !.vocab = popup.vocab]
  /\ UNCHANGED <<fs, edits, store, idbVocab, csVocab, dirHandle, history, now, bgVocab, csPending, inbox, build, ensure, reload, match, passes, scans, matches, alarm, cs, rescan, embed, setup, page, log>>

\* collectFiles rejects (the directory iteration throws): buildIndex throws into
\* the click handler's catch before anything was read or written.
PopupCollectFails ==
  /\ popup.pc = "collect"
  /\ popup' = [PopupClosed EXCEPT !.pc = "failed", !.disabled = TRUE, !.vocab = popup.vocab]
  /\ UNCHANGED <<fs, edits, store, idbVocab, csVocab, dirHandle, history, now, bgVocab, csPending, inbox, build, ensure, reload, match, passes, scans, matches, alarm, cs, rescan, embed, setup, page, log>>

\* chrome.storage.local.set completes; its callback sends VOCAB_UPDATED.
PopupStorageSet ==
  /\ csPending # <<>>
  /\ csVocab' = csPending
  /\ csPending' = <<>>
  /\ inbox' = inbox \cup {[type |-> "VOCAB_UPDATED", files |-> <<>>, n |-> 0]}
  /\ UNCHANGED <<fs, edits, store, idbVocab, dirHandle, history, now, bgVocab, popup, build, ensure, reload, match, passes, scans, matches, alarm, cs, rescan, embed, setup, page, log>>

\* The user closes the popup, abandoning whatever it was doing, and opens it
\* again: a fresh page.  A storage write already issued may still complete, but
\* its callback is gone.
PopupReopen ==
  /\ popup.pc # "idle"
  /\ popup' = PopupClosed
  /\ csPending' = <<>>
  /\ \/ csVocab' = csVocab
     \/ csPending # <<>> /\ csVocab' = csPending
  /\ UNCHANGED <<fs, edits, store, idbVocab, dirHandle, history, now, bgVocab, inbox, build, ensure, reload, match, passes, scans, matches, alarm, cs, rescan, embed, setup, page, log>>

\* ------------------------------------------- content.ts: scanFolder --

\* The inline scan of a content script, in one step: the folder is picked, every
\* file is read and BUILD_INDEX is sent with the files.
ScanFolder ==
  /\ scans < MaxScans
  /\ scans' = scans + 1
  /\ LET entries == KeysInOrder(fs)
         files == [k \in 1..Len(entries) |-> DocEntry(entries[k], fs[entries[k]], extractFileText(entries[k], fs[entries[k]]))]
     IN inbox' = inbox \cup {[type |-> "BUILD_INDEX", files |-> files, n |-> scans + 1]}
  /\ UNCHANGED <<fs, edits, store, idbVocab, csVocab, dirHandle, history, now, bgVocab, popup, csPending, build, ensure, reload, match, passes, matches, alarm, cs, rescan, embed, setup, page, log>>

\* --------------------------------------- background.ts: handleBuildIndex --

\* The upsert loop from index k (vectorize under the vocabulary the module holds
\* now, then call upsert), or exportVocab() and the call of saveVocab.
BuildToUpsert(b, k, V) ==
  IF k <= Len(b.files)
  THEN [b EXCEPT !.pc = "upsert", !.i = k, !.pending = <<VectorRecord(b.files[k], b.allTokens[k], V)>>]
  ELSE [b EXCEPT !.pc = "saveVocab", !.pending = <<>>, !.vocabOut = <<exportVocab(V)>>]

\* BUILD_INDEX is received: tokenize, buildVocabulary, call clearAll.  One
\* handleBuildIndex runs at a time here; the listener itself would start a
\* second one beside it.
BuildStart(m) ==
  /\ m \in inbox
  /\ m.type = "BUILD_INDEX"
  /\ build.pc \in {"idle", "done", "rejected"}
  /\ inbox' = inbox \ {m}
  /\ LET allTokens == [k \in 1..Len(m.files) |-> tokenize(m.files[k].text)]
     IN /\ bgVocab' = buildVocabulary(allTokens)
        /\ build' = [BuildIdle EXCEPT !.pc = "clearAll", !.files = m.files, !.allTokens = allTokens]
  /\ UNCHANGED <<fs, edits, store, idbVocab, csVocab, dirHandle, history, now, popup, csPending, ensure, reload, match, passes, scans, matches, alarm, cs, rescan, embed, setup, page, log>>

\* clearAll resolves.
BuildClearAll ==
  /\ build.pc = "clearAll"
  /\ store' = EmptyMap
  /\ build' = BuildToUpsert([build EXCEPT !.wrote = TRUE], 1, bgVocab)
  /\ UNCHANGED <<fs, edits, idbVocab, csVocab, dirHandle, history, now, bgVocab, popup, csPending, inbox, ensure, reload, match, passes, scans, matches, alarm, cs, rescan, embed, setup, page, log>>

\* upsert resolves for files[i].
BuildUpsert ==
  /\ build.pc = "upsert"
  /\ store' = Put(store, build.pending[1].id, build.pending[1])
  /\ build' = BuildToUpsert([build EXCEPT !.upserted = @ + 1], build.i + 1, bgVocab)
  /\ UNCHANGED <<fs, edits, idbVocab, csVocab, dirHandle, history, now, bgVocab, popup, csPending, inbox, ensure, reload, match, passes, scans, matches, alarm, cs, rescan, embed, setup, page, log>>

\* saveVocab resolves; chrome.storage.local.set is called.
BuildSaveVocab ==
  /\ build.pc = "saveVocab"
  /\ idbVocab' = build.vocabOut
  /\ build' = [build EXCEPT !.pc = "storageSet", !.saved = TRUE]
  /\ UNCHANGED <<fs, edits, store, csVocab, dirHandle, history, now, bgVocab, popup, csPending, inbox, ensure, reload, match, passes, scans, matches, alarm, cs, rescan, embed, setup, page, log>>

\* chrome.storage.local.set completes; getCount is called.
BuildStorageSet ==
  /\ build.pc = "storageSet"
  /\ csVocab' = build.vocabOut
  /\ build' = [build EXCEPT !.pc = "getCount"]
  /\ UNCHANGED <<fs, edits, store, idbVocab, dirHandle, history, now, bgVocab, popup, csPending, inbox, ensure, reload, match, passes, scans, matches, alarm, cs, rescan, embed, setup, page, log>>

\* getCount resolves; handleBuildIndex returns and .then(sendResponse) answers.
BuildGetCount ==
  /\ build.pc = "getCount"
  /\ build' = [build EXCEPT !.pc = "done", !.count = Cardinality(DOMAIN store), !.responded = TRUE]
  /\ UNCHANGED <<fs, edits, store, idbVocab, csVocab, dirHandle, history, now, bgVocab, popup, csPending, inbox, ensure, reload, match, passes, scans, matches, alarm, cs, rescan, embed, setup, page, log>>

\* The awaited store operation rejects: the promise of handleBuildIndex rejects,
\* and .then(sendResponse) has no rejection handler.
BuildStoreFails ==
  /\ build.pc \in {"clearAll", "upsert", "saveVocab", "getCount"}
  /\ build' = [BuildIdle EXCEPT !.pc = "rejected"]
  /\ UNCHANGED <<fs, edits, store, idbVocab, csVocab, dirHandle, history, now, bgVocab, popup, csPending, inbox, ensure, reload, match, passes, scans, matches, alarm, cs, rescan, embed, setup, page, log>>

\* -------------------------------------------- background.ts: ensureVocab --

\* The vocabulary ensureVocab imports once getVocab resolved with a snapshot.
ImportFrom(slot) == importVocab(slot[1])

\* The ensureVocab() of the module's load: getVocab resolves.
EnsureGetVocab ==
  /\ ensure.pc = "getVocab"
  /\ IF idbVocab # <<>>
     THEN bgVocab' = ImportFrom(idbVocab) /\ ensure' = [pc |-> "done"]
     ELSE bgVocab' = bgVocab /\ ensure' = [pc |-> "storageGet"]
  /\ UNCHANGED <<fs, edits, store, idbVocab, csVocab, dirHandle, history, now, popup, csPending, inbox, build, reload, match, passes, scans, matches, alarm, cs, rescan, embed, setup, page, log>>

\* The callback of chrome.storage.local.get importing the snapshot it finds
\* without writing it to IndexedDB.
EnsureStorageGetNoMigration ==
  /\ ensure.pc = "storageGet"
  /\ ensure' = [pc |-> "done"]
  /\ bgVocab' = IF csVocab # <<>> THEN ImportFrom(csVocab) ELSE bgVocab
  /\ UNCHANGED <<fs, edits, store, idbVocab, csVocab, dirHandle, history, now, popup, csPending, inbox, build, reload, match, passes, scans, matches, alarm, cs, rescan, embed, setup, page, log>>

\* chrome.storage.local.get calls back: a snapshot found there is imported and
\* written to IndexedDB.
EnsureStorageGet ==
  /\ ensure.pc = "storageGet"
  /\ ensure' = [pc |-> "done"]
  /\ IF csVocab # <<>>
     THEN bgVocab' = ImportFrom(csVocab) /\ idbVocab' = csVocab
     ELSE bgVocab' = bgVocab /\ idbVocab' = idbVocab
  /\ UNCHANGED <<fs, edits, store, csVocab, dirHandle, history, now, popup, csPending, inbox, build, reload, match, passes, scans, matches, alarm, cs, rescan, embed, setup, page, log>>

\* ------------------------------------ background.ts: VOCAB_UPDATED handler --

ReloadStart(m) ==
  /\ m \in inbox
  /\ m.type = "VOCAB_UPDATED"
  /\ reload.pc \in {"idle", "done"}
  /\ inbox' = inbox \ {m}
  /\ reload' = [pc |-> "getVocab"]
  /\ UNCHANGED <<fs, edits, store, idbVocab, csVocab, dirHandle, history, now, bgVocab, popup, csPending, build, ensure, match, passes, scans, matches, alarm, cs, rescan, embed, setup, page, log>>

\* getVocab resolves: the snapshot is imported (from chrome.storage.local when
\* IndexedDB has none) and the sender is answered.
ReloadGetVocab ==
  /\ reload.pc = "getVocab"
  /\ reload' = [pc |-> "done"]
  /\ bgVocab' = IF idbVocab # <<>> THEN ImportFrom(idbVocab)
                ELSE IF csVocab # <<>> THEN ImportFrom(csVocab)
                ELSE bgVocab
  /\ UNCHANGED <<fs, edits, store, idbVocab, csVocab, dirHandle, history, now, popup, csPending, inbox, build, ensure, match, passes, scans, matches, alarm, cs, rescan, embed, setup, page, log>>

\* -------------------------------------------- background.ts: handleMatch --

\* getHistoryByHost returning the entries of every host.
getHistoryAnyHost(host) == history

\* getHistoryByHost(host): the entries of the host, in insertion order.
getHistoryByHost(host) == SelectSeq(history, LAMBDA h : h.websiteHost = host)

\* The end of handleMatch: re-rank, sort, cut, answer.
MatchRespond(m, hist) ==
  [m EXCEPT !.pc = "done", !.top = RankTop(m.results, hist, m.context, Days[now]), !.responded = TRUE]

\* handleMatch after `await ensureVocab()`: tokenize and vectorize the context
\* under V; an empty vector answers at once, otherwise search is called.
MatchAfterEnsure(m, V) ==
  LET queryVec == vectorize(tokenize(m.context), V)
  IN IF Len(queryVec) = 0 THEN [m EXCEPT !.pc = "done", !.queryVec = queryVec, !.queryModel = <<V>>, !.top = <<>>, !.responded = TRUE]
     ELSE [m EXCEPT !.pc = "search", !.queryVec = queryVec, !.queryModel = <<V>>]

\* MATCH_REQUEST is received: ensureVocab returns at once when the module holds a
\* vocabulary, and calls getVocab otherwise.
MatchStart(context, pageUrl) ==
  /\ matches < MaxMatches
  /\ match.pc \in {"idle", "done", "rejected"}
  /\ matches' = matches + 1
  /\ LET m == [MatchIdle EXCEPT !.context = context, !.pageUrl = pageUrl]
     IN match' = IF getVocabSize(bgVocab) > 0 THEN MatchAfterEnsure(m, bgVocab) ELSE [m EXCEPT !.pc = "getVocab"]
  /\ UNCHANGED <<fs, edits, store, idbVocab, csVocab, dirHandle, history, now, bgVocab, popup, csPending, inbox, build, ensure, reload, passes, scans, alarm, cs, rescan, embed, setup, page, log>>

\* ensureVocab inside handleMatch: getVocab resolves.
MatchGetVocab ==
  /\ match.pc = "getVocab"
  /\ IF idbVocab # <<>>
     THEN bgVocab' = ImportFrom(idbVocab) /\ match' = MatchAfterEnsure(match, ImportFrom(idbVocab))
     ELSE bgVocab' = bgVocab /\ match' = [match EXCEPT !.pc = "storageGet"]
  /\ UNCHANGED <<fs, edits, store, idbVocab, csVocab, dirHandle, history, now, popup, csPending, inbox, build, ensure, reload, passes, scans, matches, alarm, cs, rescan, embed, setup, page, log>>

\* ensureVocab inside handleMatch: chrome.storage.local.get calls back.
MatchStorageGet ==
  /\ match.pc = "storageGet"
  /\ IF csVocab # <<>>
     THEN bgVocab' = ImportFrom(csVocab) /\ idbVocab' = csVocab
     ELSE bgVocab' = bgVocab /\ idbVocab' = idbVocab
  /\ match' = MatchAfterEnsure(match, bgVocab')
  /\ UNCHANGED <<fs, edits, store, csVocab, dirHandle, history, now, popup, csPending, inbox, build, ensure, reload, passes, scans, matches, alarm, cs, rescan, embed, setup, page, log>>

\* search resolves: every stored record is scored against the query vector.
\* With a page URL that parses, getHistoryByHost is called; otherwise the
\* history stays empty and the answer is given.
MatchSearch ==
  /\ match.pc = "search"
  /\ LET all == [k \in 1..Len(KeysInOrder(store)) |-> store[KeysInOrder(store)[k]]]
         m == [match EXCEPT !.scored = all, !.results = search(match.queryVec, OverFetch, all)]
     IN match' = IF match.pageUrl \in Hosts THEN [m EXCEPT !.pc = "history"] ELSE MatchRespond(m, <<>>)
  /\ UNCHANGED <<fs, edits, store, idbVocab, csVocab, dirHandle, history, now, bgVocab, popup, csPending, inbox, build, ensure, reload, passes, scans, matches, alarm, cs, rescan, embed, setup, page, log>>

\* getHistoryByHost resolves.
MatchHistory ==
  /\ match.pc = "history"
  /\ match' = MatchRespond(match, getHistoryByHost(match.pageUrl))
  /\ UNCHANGED <<fs, edits, store, idbVocab, csVocab, dirHandle, history, now, bgVocab, popup, csPending, inbox, build, ensure, reload, passes, scans, matches, alarm, cs, rescan, embed, setup, page, log>>

\* getHistoryByHost rejects into the empty catch: the history stays empty.
MatchHistoryFails ==
  /\ match.pc = "history"
  /\ match' = MatchRespond(match, <<>>)
  /\ UNCHANGED <<fs, edits, store, idbVocab, csVocab, dirHandle, history, now, bgVocab, popup, csPending, inbox, build, ensure, reload, passes, scans, matches, alarm, cs, rescan, embed, setup, page, log>>

\* getVocab or search rejects: the promise of handleMatch rejects, and
\* .then(sendResponse) has no rejection handler.
MatchStoreFails ==
  /\ match.pc \in {"getVocab", "search"}
  /\ match' = [MatchIdle EXCEPT !.pc = "rejected"]
  /\ UNCHANGED <<fs, edits, store, idbVocab, csVocab, dirHandle, history, now, bgVocab, popup, csPending, inbox, build, ensure, reload, passes, scans, matches, alarm, cs, rescan, embed, setup, page, log>>

\* ------------------------------------------------------- usage history --

\* TRACK_UPLOAD is handled: addUploadHistory appends the entry.
TrackUpload(fileId, host) ==
  /\ Len(history) < MaxHistory
  /\ history' = Append(history, [fileId |-> fileId, websiteHost |-> host, timestamp |-> Days[now]])
  /\ UNCHANGED <<fs, edits, store, idbVocab, csVocab, dirHandle, now, bgVocab, popup, csPending, inbox, build, ensure, reload, match, passes, scans, matches, alarm, cs, rescan, embed, setup, page, log>>

\* Time passes.
Tick ==
  /\ now < Len(Days)
  /\ now' = now + 1
  /\ UNCHANGED <<fs, edits, store, idbVocab, csVocab, dirHandle, history, bgVocab, popup, csPending, inbox, build, ensure, reload, match, passes, scans, matches, alarm, cs, rescan, embed, setup, page, log>>

\* ------------------------------ content.ts: handleRecommend and doMatch --

\* xupload_config: an API key or none, and the mode.
Configs == [apiKey : BOOLEAN, mode : {"tfidf", "fast", "vlm"}]

\* The button is clicked on an upload target of the given context:
\* handleRecommend sends GET_INDEX_COUNT.
RecommendClick(context) ==
  /\ cs.pc \in {"idle", "closed"}
  /\ cs' = [CsIdle EXCEPT !.pc = "getCount", !.context = context,
                          !.uses = cs.uses, !.confirmed = cs.confirmed, !.sends = cs.sends]
  /\ UNCHANGED <<fs, edits, store, idbVocab, csVocab, dirHandle, history, now, bgVocab, popup, csPending, inbox, build, ensure, reload, match, passes, scans, matches, alarm, rescan, embed, setup, page, log>>

\* GET_INDEX_COUNT is answered: without an index the scan panel is shown,
\* otherwise doMatch starts and reads the configuration.
RecommendCount ==
  /\ cs.pc = "getCount"
  /\ cs' = IF Cardinality(DOMAIN store) = 0 THEN [cs EXCEPT !.pc = "scanPanel"] ELSE [cs EXCEPT !.pc = "getConfig"]
  /\ UNCHANGED <<fs, edits, store, idbVocab, csVocab, dirHandle, history, now, bgVocab, popup, csPending, inbox, build, ensure, reload, match, passes, scans, matches, alarm, rescan, embed, setup, page, log>>

\* getConfig resolves.  With an API key and a mode other than tfidf: CAPTURE_TAB
\* is sent (vlm) or MATCH_REQUEST_ENHANCED is.  Otherwise MATCH_REQUEST is sent.
DoMatchConfig(config) ==
  /\ cs.pc = "getConfig"
  /\ cs' = IF config.apiKey /\ config.mode # "tfidf"
           THEN (IF config.mode = "vlm" THEN [cs EXCEPT !.pc = "capture"] ELSE [cs EXCEPT !.pc = "enhanced"])
           ELSE [cs EXCEPT !.pc = "match", !.sentMatch = TRUE, !.req = matches]
  /\ UNCHANGED <<fs, edits, store, idbVocab, csVocab, dirHandle, history, now, bgVocab, popup, csPending, inbox, build, ensure, reload, match, passes, scans, matches, alarm, rescan, embed, setup, page, log>>

\* CAPTURE_TAB (and the crop) ends: with a screenshot, with none, or by
\* throwing into the catch.  MATCH_REQUEST_ENHANCED is sent in each case.
DoMatchCapture(outcome) ==
  /\ cs.pc = "capture"
  /\ cs' = [cs EXCEPT !.pc = "enhanced", !.capture = outcome]
  /\ UNCHANGED <<fs, edits, store, idbVocab, csVocab, dirHandle, history, now, bgVocab, popup, csPending, inbox, build, ensure, reload, match, passes, scans, matches, alarm, rescan, embed, setup, page, log>>

\* MATCH_REQUEST_ENHANCED ends: with results (the panel shows them), with an
\* empty list or with no response ("No matching files found."), or by
\* rejecting, which leaves doMatch for the catch of handleRecommend ("Error
\* getting recommendations.").
DoMatchEnhanced(outcome, items) ==
  /\ cs.pc = "enhanced"
  /\ outcome = "results" <=> items # <<>>
  /\ cs' = [cs EXCEPT !.pc = "shown", !.enhanced = outcome, !.items = items,
                      !.panel = IF outcome = "results" THEN "results"
                                ELSE IF outcome = "rejected" THEN "error" ELSE "empty"]
  /\ UNCHANGED <<fs, edits, store, idbVocab, csVocab, dirHandle, history, now, bgVocab, popup, csPending, inbox, build, ensure, reload, match, passes, scans, matches, alarm, rescan, embed, setup, page, log>>

\* MATCH_REQUEST is answered by handleMatch: the panel shows the results, or
\* "No matching files found.".
DoMatchResponse ==
  /\ cs.pc = "match"
  /\ matches > cs.req
  /\ match.pc = "done"
  /\ match.responded
  /\ cs' = [cs EXCEPT !.pc = "shown", !.items = [k \in 1..Len(match.top) |-> match.top[k].record.id],
                      !.panel = IF Len(match.top) > 0 THEN "results" ELSE "empty"]
  /\ UNCHANGED <<fs, edits, store, idbVocab, csVocab, dirHandle, history, now, bgVocab, popup, csPending, inbox, build, ensure, reload, match, passes, scans, matches, alarm, rescan, embed, setup, page, log>>

\* ------------------------------------ content.ts: the panel and the preview --

\* An item of the list is clicked: getFile resolves with the file and the
\* preview replaces the list, or with null and the list stays.
PanelSelect(k, readable) ==
  /\ cs.pc = "shown"
  /\ cs.panel = "results"
  /\ k \in 1..Len(cs.items)
  /\ cs' = IF readable THEN [cs EXCEPT !.pc = "preview", !.selected = <<cs.items[k]>>, !.useDisabled = FALSE] ELSE cs
  /\ UNCHANGED <<fs, edits, store, idbVocab, csVocab, dirHandle, history, now, bgVocab, popup, csPending, inbox, build, ensure, reload, match, passes, scans, matches, alarm, rescan, embed, setup, page, log>>

\* "Back" in the preview: the panel is removed and doMatch runs again.
PreviewBack ==
  /\ cs.pc = "preview"
  /\ cs' = [cs EXCEPT !.pc = "getConfig", !.capture = "none", !.enhanced = "none", !.sentMatch = FALSE,
                      !.panel = "none", !.items = <<>>, !.selected = <<>>, !.useDisabled = FALSE]
  /\ UNCHANGED <<fs, edits, store, idbVocab, csVocab, dirHandle, history, now, bgVocab, popup, csPending, inbox, build, ensure, reload, match, passes, scans, matches, alarm, rescan, embed, setup, page, log>>

\* "Use this file" sending TRACK_UPLOAD whether or not the fill succeeded.
PreviewUseAlwaysTracks(success) ==
  /\ cs.pc = "preview"
  /\ ~cs.useDisabled
  /\ cs.uses < MaxUses
  /\ cs' = IF success THEN [cs EXCEPT !.useDisabled = TRUE, !.uses = @ + 1, !.confirmed = @ + 1, !.sends = @ + 1]
           ELSE [cs EXCEPT !.uses = @ + 1, !.sends = @ + 1]
  /\ inbox' = inbox \cup {[type |-> "TRACK_UPLOAD", n |-> cs.sends + 1,
                            files |-> <<[fileId |-> cs.selected[1], websiteHost |-> SpecUrl, timestamp |-> Days[now]]>>]}
  /\ UNCHANGED <<fs, edits, store, idbVocab, csVocab, dirHandle, history, now, bgVocab, popup, csPending, build, ensure, reload, match, passes, scans, matches, alarm, rescan, embed, setup, page, log>>

\* "Use this file" in the preview: the button is disabled and fillFileWithObj
\* runs.  When it succeeds TRACK_UPLOAD is sent with the entry and the button
\* stays disabled; when it fails the button is enabled again.
PreviewUse(success) ==
  /\ cs.pc = "preview"
  /\ ~cs.useDisabled
  /\ cs.uses < MaxUses
  /\ IF success
     THEN /\ cs' = [cs EXCEPT !.useDisabled = TRUE, !.uses = @ + 1, !.confirmed = @ + 1, !.sends = @ + 1]
          /\ inbox' = inbox \cup {[type |-> "TRACK_UPLOAD", n |-> cs.sends + 1,
                                    files |-> <<[fileId |-> cs.selected[1], websiteHost |-> SpecUrl, timestamp |-> Days[now]]>>]}
     ELSE /\ cs' = [cs EXCEPT !.uses = @ + 1]
          /\ inbox' = inbox
  /\ UNCHANGED <<fs, edits, store, idbVocab, csVocab, dirHandle, history, now, bgVocab, popup, csPending, build, ensure, reload, match, passes, scans, matches, alarm, rescan, embed, setup, page, log>>

\* A click outside the list or the preview, or the time-out that follows a
\* fill that succeeded: the panel is removed.
PanelClose ==
  /\ cs.pc \in {"shown", "preview"}
  /\ cs' = [CsIdle EXCEPT !.pc = "closed", !.uses = cs.uses, !.confirmed = cs.confirmed, !.sends = cs.sends]
  /\ UNCHANGED <<fs, edits, store, idbVocab, csVocab, dirHandle, history, now, bgVocab, popup, csPending, inbox, build, ensure, reload, match, passes, scans, matches, alarm, rescan, embed, setup, page, log>>

\* TRACK_UPLOAD is received: addUploadHistory appends msg.entry.
TrackUploadReceived(m) ==
  /\ m \in inbox
  /\ m.type = "TRACK_UPLOAD"
  /\ inbox' = inbox \ {m}
  /\ history' = Append(history, m.files[1])
  /\ UNCHANGED <<fs, edits, store, idbVocab, csVocab, dirHandle, now, bgVocab, popup, csPending, build, ensure, reload, match, passes, scans, matches, alarm, cs, rescan, embed, setup, page, log>>

\* ------------------------- content.ts: the panels attached to the document --

\* A panel element as showScanPanel, showPanel and showPreview append it.
NewPanel(kind, items) ==
  [kind |-> kind, attached |-> TRUE, listen |-> "timer", items |-> items, disabled |-> FALSE, closing |-> FALSE]

Flow(pc, origin, panel, item) == [pc |-> pc, origin |-> origin, panel |-> panel, item |-> item]

\* document.querySelectorAll(".xupload-panel").forEach((el) => el.remove()).
RemoveAll(panels) == [i \in DOMAIN panels |-> [panels[i] EXCEPT !.attached = FALSE]]

\* The async function returns: it no longer stands at an await.
DropAt(flows, f) == [i \in 1..(Len(flows) - 1) |-> IF i < f THEN flows[i] ELSE flows[i + 1]]

AttachedPanels == {p \in DOMAIN page.panels : page.panels[p].attached}

\* A lightning button is clicked: handleRecommend removes every panel and sends
\* GET_INDEX_COUNT.  The click does not reach the document's listeners
\* (stopPropagation).
PageRecommendClick ==
  /\ page.clicks < MaxClicks
  /\ page' = [page EXCEPT !.panels = RemoveAll(@), !.clicks = @ + 1,
                          !.flows = Append(@, Flow("getCount", "recommend", 0, <<>>))]
  /\ UNCHANGED <<fs, edits, store, idbVocab, csVocab, dirHandle, history, now, bgVocab, popup, csPending, inbox, build, ensure, reload, match, passes, scans, matches, alarm, cs, rescan, embed, setup, log>>

\* GET_INDEX_COUNT is answered: without an index showScanPanel appends the scan
\* prompt, otherwise doMatch starts and reads the configuration; when
\* sendMessage rejects, the catch calls showPanel with the error text.
PageCount(f, rejected) ==
  /\ f \in DOMAIN page.flows
  /\ page.flows[f].pc = "getCount"
  /\ page' = IF rejected
             THEN [page EXCEPT !.panels = Append(@, NewPanel("list", <<>>)), !.flows = DropAt(@, f)]
             ELSE IF Cardinality(DOMAIN store) = 0
             THEN [page EXCEPT !.panels = Append(@, NewPanel("scan", <<>>)), !.flows = DropAt(@, f)]
             ELSE [page EXCEPT !.flows[f].pc = "getConfig"]
  /\ UNCHANGED <<fs, edits, store, idbVocab, csVocab, dirHandle, history, now, bgVocab, popup, csPending, inbox, build, ensure, reload, match, passes, scans, matches, alarm, cs, rescan, embed, setup, log>>

\* getConfig resolves in doMatch: CAPTURE_TAB (vlm), MATCH_REQUEST_ENHANCED or
\* MATCH_REQUEST is sent.
PageConfig(f, config) ==
  /\ f \in DOMAIN page.flows
  /\ page.flows[f].pc = "getConfig"
  /\ page' = [page EXCEPT !.flows[f].pc = IF config.apiKey /\ config.mode # "tfidf"
                                          THEN (IF config.mode = "vlm" THEN "capture" ELSE "enhanced")
                                          ELSE "match"]
  /\ UNCHANGED <<fs, edits, store, idbVocab, csVocab, dirHandle, history, now, bgVocab, popup, csPending, inbox, build, ensure, reload, match, passes, scans, matches, alarm, cs, rescan, embed, setup, log>>

\* CAPTURE_TAB and the crop end, with a screenshot, without one or in the
\* catch: MATCH_REQUEST_ENHANCED is sent.
PageCapture(f) ==
  /\ f \in DOMAIN page.flows
  /\ page.flows[f].pc = "capture"
  /\ page' = [page EXCEPT !.flows[f].pc = "enhanced"]
  /\ UNCHANGED <<fs, edits, store, idbVocab, csVocab, dirHandle, history, now, bgVocab, popup, csPending, inbox, build, ensure, reload, match, passes, scans, matches, alarm, cs, rescan, embed, setup, log>>

\* The match request ends: showPanel appends the list of the results, or the
\* panel saying that nothing matched.  When sendMessage rejects, the catch of
\* handleRecommend appends the error panel; the scan button's handler and Back
\* have no catch around doMatch.
PageAnswer(f, outcome, items) ==
  /\ f \in DOMAIN page.flows
  /\ page.flows[f].pc \in {"enhanced", "match"}
  /\ outcome = "results" <=> items # <<>>
  /\ page' = IF outcome = "rejected" /\ page.flows[f].origin # "recommend"
             THEN [page EXCEPT !.flows = DropAt(@, f)]
             ELSE [page EXCEPT !.panels = Append(@, NewPanel("list", items)), !.flows = DropAt(@, f)]
  /\ UNCHANGED <<fs, edits, store, idbVocab, csVocab, dirHandle, history, now, bgVocab, popup, csPending, inbox, build, ensure, reload, match, passes, scans, matches, alarm, cs, rescan, embed, setup, log>>

\* The timer of setTimeout(..., 0) fires: the panel's closeHandler listens to
\* the document's clicks.
PageListen(p) ==
  /\ p \in DOMAIN page.panels
  /\ page.panels[p].listen = "timer"
  /\ page' = [page EXCEPT !.panels[p].listen = "on"]
  /\ UNCHANGED <<fs, edits, store, idbVocab, csVocab, dirHandle, history, now, bgVocab, popup, csPending, inbox, build, ensure, reload, match, passes, scans, matches, alarm, cs, rescan, embed, setup, log>>

\* A click that reaches the document, outside every panel (q = 0) or on the
\* panel q beside its buttons and results: every closeHandler whose panel does
\* not contain the target removes its panel and itself.
PageOutsideClick(q) ==
  /\ q \in {0} \cup AttachedPanels
  /\ \E p \in DOMAIN page.panels : p # q /\ page.panels[p].listen = "on"
  /\ page' = [page EXCEPT !.panels = [p \in DOMAIN @ |-> IF p # q /\ @[p].listen = "on"
                                                         THEN [@[p] EXCEPT !.attached = FALSE, !.listen = "off"]
                                                         ELSE @[p]]]
  /\ UNCHANGED <<fs, edits, store, idbVocab, csVocab, dirHandle, history, now, bgVocab, popup, csPending, inbox, build, ensure, reload, match, passes, scans, matches, alarm, cs, rescan, embed, setup, log>>

\* "Select folder to scan" is clicked: the button is disabled and scanFolder
\* opens the directory picker.
PageScanClick(p) ==
  /\ p \in AttachedPanels
  /\ page.panels[p].kind = "scan"
  /\ ~page.panels[p].disabled
  /\ page.clicks < MaxClicks
  /\ page' = [page EXCEPT !.panels[p].disabled = TRUE, !.clicks = @ + 1,
                          !.flows = Append(@, Flow("pick", "scan", p, <<>>))]
  /\ UNCHANGED <<fs, edits, store, idbVocab, csVocab, dirHandle, history, now, bgVocab, popup, csPending, inbox, build, ensure, reload, match, passes, scans, matches, alarm, cs, rescan, embed, setup, log>>

\* The picker is cancelled: scanFolder returns false and the button is enabled
\* again.
PageScanCancelled(f) ==
  /\ f \in DOMAIN page.flows
  /\ page.flows[f].pc = "pick"
  /\ page' = [page EXCEPT !.panels[page.flows[f].panel].disabled = FALSE, !.flows = DropAt(@, f)]
  /\ UNCHANGED <<fs, edits, store, idbVocab, csVocab, dirHandle, history, now, bgVocab, popup, csPending, inbox, build, ensure, reload, match, passes, scans, matches, alarm, cs, rescan, embed, setup, log>>

\* A folder is picked: scanFolder reads the files and sends BUILD_INDEX.
PageScanPicked(f) ==
  /\ f \in DOMAIN page.flows
  /\ page.flows[f].pc = "pick"
  /\ scans < MaxScans
  /\ scans' = scans + 1
  /\ LET entries == KeysInOrder(fs)
         files == [k \in 1..Len(entries) |-> DocEntry(entries[k], fs[entries[k]], extractFileText(entries[k], fs[entries[k]]))]
     IN inbox' = inbox \cup {[type |-> "BUILD_INDEX", files |-> files, n |-> scans + 1]}
  /\ page' = [page EXCEPT !.flows[f].pc = "buildIndex"]
  /\ UNCHANGED <<fs, edits, store, idbVocab, csVocab, dirHandle, history, now, bgVocab, popup, csPending, build, ensure, reload, match, passes, matches, alarm, cs, rescan, embed, setup, log>>

\* BUILD_INDEX is answered: scanFolder returns true, the scan prompt is
\* removed and doMatch starts.
PageScanDone(f) ==
  /\ f \in DOMAIN page.flows
  /\ page.flows[f].pc = "buildIndex"
  /\ build.pc = "done"
  /\ build.responded
  /\ page' = [page EXCEPT !.panels[page.flows[f].panel].attached = FALSE,
                          !.flows[f] = Flow("getConfig", "scan", 0, <<>>)]
  /\ UNCHANGED <<fs, edits, store, idbVocab, csVocab, dirHandle, history, now, bgVocab, popup, csPending, inbox, build, ensure, reload, match, passes, scans, matches, alarm, cs, rescan, embed, setup, log>>

\* A result of the list is clicked: its handler calls getFile.
PageItemClick(p, k) ==
  /\ p \in AttachedPanels
  /\ page.panels[p].kind = "list"
  /\ k \in 1..Len(page.panels[p].items)
  /\ page.clicks < MaxClicks
  /\ page' = [page EXCEPT !.clicks = @ + 1,
                          !.flows = Append(@, Flow("getFile", "item", p, <<page.panels[p].items[k]>>))]
  /\ UNCHANGED <<fs, edits, store, idbVocab, csVocab, dirHandle, history, now, bgVocab, popup, csPending, inbox, build, ensure, reload, match, passes, scans, matches, alarm, cs, rescan, embed, setup, log>>

\* getFile resolves: with the file, the list is removed and showPreview
\* removes every panel and appends the preview; with null the list stays.
PageFile(f, readable) ==
  /\ f \in DOMAIN page.flows
  /\ page.flows[f].pc = "getFile"
  /\ page' = IF readable
             THEN [page EXCEPT !.panels = Append(RemoveAll(@), NewPanel("preview", page.flows[f].item)),
                               !.flows = DropAt(@, f)]
             ELSE [page EXCEPT !.flows = DropAt(@, f)]
  /\ UNCHANGED <<fs, edits, store, idbVocab, csVocab, dirHandle, history, now, bgVocab, popup, csPending, inbox, build, ensure, reload, match, passes, scans, matches, alarm, cs, rescan, embed, setup, log>>

\* "Back" in a preview: the preview is removed and doMatch is called.
PageBack(p) ==
  /\ p \in AttachedPanels
  /\ page.panels[p].kind = "preview"
  /\ page.clicks < MaxClicks
  /\ page' = [page EXCEPT !.panels[p].attached = FALSE, !.clicks = @ + 1,
                          !.flows = Append(@, Flow("getConfig", "back", 0, <<>>))]
  /\ UNCHANGED <<fs, edits, store, idbVocab, csVocab, dirHandle, history, now, bgVocab, popup, csPending, inbox, build, ensure, reload, match, passes, scans, matches, alarm, cs, rescan, embed, setup, log>>

\* "Use this file" in a preview: when the fill succeeds the button stays
\* disabled, the panel is to be removed 600 ms later and TRACK_UPLOAD is sent;
\* when it fails the button is enabled again.
PageUse(p, success) ==
  /\ p \in AttachedPanels
  /\ page.panels[p].kind = "preview"
  /\ ~page.panels[p].disabled
  /\ page.uses < MaxUses
  /\ IF success
     THEN /\ page' = [page EXCEPT !.panels[p].disabled = TRUE, !.panels[p].closing = TRUE, !.uses = @ + 1]
          /\ inbox' = inbox \cup {[type |-> "TRACK_UPLOAD", n |-> page.uses + 1,
                                    files |-> <<[fileId |-> page.panels[p].items[1], websiteHost |-> SpecUrl, timestamp |-> Days[now]]>>]}
     ELSE /\ page' = [page EXCEPT !.uses = @ + 1]
          /\ inbox' = inbox
  /\ UNCHANGED <<fs, edits, store, idbVocab, csVocab, dirHandle, history, now, bgVocab, popup, csPending, build, ensure, reload, match, passes, scans, matches, alarm, cs, rescan, embed, setup, log>>

\* The 600 ms timer of a fill fires: the preview is removed.
PageUseTimeout(p) ==
  /\ p \in DOMAIN page.panels
  /\ page.panels[p].closing
  /\ page' = [page EXCEPT !.panels[p].attached = FALSE, !.panels[p].closing = FALSE]
  /\ UNCHANGED <<fs, edits, store, idbVocab, csVocab, dirHandle, history, now, bgVocab, popup, csPending, inbox, build, ensure, reload, match, passes, scans, matches, alarm, cs, rescan, embed, setup, log>>

\* ------------------------------------------ workflow.ts: the log buffer --

\* logs.slice(-n).
SliceLast(logs, n) == SubSeq(logs, Max2(1, Len(logs) - n + 1), Len(logs))

\* schedulePersist setting a time-out whether or not flushTimer holds one.
schedulePersistAgain(l) ==
  IF ~l.persister THEN l
  ELSE [l EXCEPT !.flushTimer = TRUE, !.timers = @ + 1]

\* schedulePersist(): nothing without a persister or with a flushTimer;
\* otherwise a time-out is set and flushTimer holds it.
schedulePersist(l) ==
  IF ~l.persister THEN l
  ELSE IF l.flushTimer THEN l
  ELSE [l EXCEPT !.flushTimer = TRUE, !.timers = @ + 1]

\* pushLog evicting only above MAX_LOG_ENTRIES.
pushLogLate(l, entry) ==
  schedulePersist([l EXCEPT !.buffer = Append(IF Len(@) > MAX_LOG_ENTRIES THEN Tail(@) ELSE @, entry)])

\* pushLog(entry).
pushLog(l, entry) ==
  schedulePersist([l EXCEPT !.buffer = Append(IF Len(@) >= MAX_LOG_ENTRIES THEN Tail(@) ELSE @, entry)])

\* An entry is logged at the given level.
LogEntry(level) ==
  /\ log.logged < MaxLogged
  /\ LET entry == [level |-> level, n |-> log.logged + 1, persisted |-> FALSE]
     IN log' = [pushLog(log, entry) EXCEPT !.logged = @ + 1, !.entered = Append(@, entry),
                                           !.owed = IF log.persister THEN @ \cup {entry} ELSE @]
  /\ UNCHANGED <<fs, edits, store, idbVocab, csVocab, dirHandle, history, now, bgVocab, popup, csPending, inbox, build, ensure, reload, match, passes, scans, matches, alarm, cs, rescan, embed, setup, page>>

\* logWorkflowStep(workflowId, step, data).
LogWorkflowStep == LogEntry("info")

\* logWorkflowError(workflowId, step, error).
LogWorkflowError == LogEntry("error")

\* Entries a persister stored earlier, as loadPersistedLogs is given them.
PersistedLogs(k) == [i \in 1..k |-> [level |-> IF i = 2 THEN "error" ELSE "info", n |-> i, persisted |-> TRUE]]

\* loadPersistedLogs(logs): the buffer is emptied and filled with the last
\* MAX_LOG_ENTRIES entries of logs.
LoadPersistedLogs(logs) ==
  /\ log' = [log EXCEPT !.buffer = SliceLast(logs, MAX_LOG_ENTRIES), !.entered = logs]
  /\ log' # log
  /\ UNCHANGED <<fs, edits, store, idbVocab, csVocab, dirHandle, history, now, bgVocab, popup, csPending, inbox, build, ensure, reload, match, passes, scans, matches, alarm, cs, rescan, embed, setup, page>>

\* setLogPersister(fn).
SetLogPersister ==
  /\ ~log.persister
  /\ log' = [log EXCEPT !.persister = TRUE]
  /\ UNCHANGED <<fs, edits, store, idbVocab, csVocab, dirHandle, history, now, bgVocab, popup, csPending, inbox, build, ensure, reload, match, passes, scans, matches, alarm, cs, rescan, embed, setup, page>>

\* The time-out of schedulePersist fires: flushTimer is cleared and the
\* persister is given a copy of the buffer.
LogFlush ==
  /\ log.timers > 0
  /\ log' = [log EXCEPT !.timers = @ - 1, !.flushTimer = FALSE,
                        !.handed = IF log.persister THEN @ \cup Range(log.buffer) ELSE @,
                        !.snapshot = IF log.persister THEN log.buffer ELSE @]
  /\ UNCHANGED <<fs, edits, store, idbVocab, csVocab, dirHandle, history, now, bgVocab, popup, csPending, inbox, build, ensure, reload, match, passes, scans, matches, alarm, cs, rescan, embed, setup, page>>

\* ------------------------------------- popup.ts: the rescan configuration --

\* The user changes the checkbox or the select: the change handler,
\* saveCurrentRescanConfig, calls getRescanConfig.
ConfigChange(enabled, interval) ==
  /\ rescan.changes < MaxConfigChanges
  /\ rescan.save.pc \in {"idle", "done"}
  /\ <<enabled, interval>> # <<rescan.checkbox, rescan.select>>
  /\ rescan' = [rescan EXCEPT !.checkbox = enabled, !.select = interval, !.changes = @ + 1,
                              !.save = [pc |-> "get", config |-> <<>>]]
  /\ UNCHANGED <<fs, edits, store, idbVocab, csVocab, dirHandle, history, now, bgVocab, popup, csPending, inbox, build, ensure, reload, match, passes, scans, matches, alarm, cs, embed, setup, page, log>>

\* getRescanConfig resolves in saveCurrentRescanConfig: the controls are copied
\* into the record read and saveRescanConfig is called.
SaveConfigGet ==
  /\ rescan.save.pc = "get"
  /\ rescan' = [rescan EXCEPT !.save = [pc |-> "put",
                                        config |-> <<[rescan.stored EXCEPT !.autoRescanEnabled = rescan.checkbox,
                                                                            !.rescanIntervalMin = rescan.select]>>]]
  /\ UNCHANGED <<fs, edits, store, idbVocab, csVocab, dirHandle, history, now, bgVocab, popup, csPending, inbox, build, ensure, reload, match, passes, scans, matches, alarm, cs, embed, setup, page, log>>

\* saveRescanConfig resolves in saveCurrentRescanConfig; RESCAN_CONFIG_UPDATED
\* is sent.
SaveConfigPut ==
  /\ rescan.save.pc = "put"
  /\ rescan' = [rescan EXCEPT !.stored = rescan.save.config[1], !.save = [pc |-> "done", config |-> <<>>]]
  /\ UNCHANGED <<fs, edits, store, idbVocab, csVocab, dirHandle, history, now, bgVocab, popup, csPending, inbox, build, ensure, reload, match, passes, scans, matches, alarm, cs, embed, setup, page, log>>

\* buildIndex calls updateLastScanTimestamp, which calls getRescanConfig.
StampStart ==
  /\ popup.pc \in {"lastScan", "noChange"}
  /\ rescan.stamp.pc \in {"idle", "done"}
  /\ rescan.stamp.pass < passes
  /\ rescan' = [rescan EXCEPT !.stamp = [pc |-> "get", config |-> <<>>, pass |-> passes]]
  /\ UNCHANGED <<fs, edits, store, idbVocab, csVocab, dirHandle, history, now, bgVocab, popup, csPending, inbox, build, ensure, reload, match, passes, scans, matches, alarm, cs, embed, setup, page, log>>

\* getRescanConfig resolves in updateLastScanTimestamp: Date.now() (the number
\* of the pass stands for it) is set in the record read and saveRescanConfig is
\* called.
StampGet ==
  /\ rescan.stamp.pc = "get"
  /\ rescan' = [rescan EXCEPT !.stamp.pc = "put",
                              !.stamp.config = <<[rescan.stored EXCEPT !.lastScanTimestamp = rescan.stamp.pass]>>]
  /\ UNCHANGED <<fs, edits, store, idbVocab, csVocab, dirHandle, history, now, bgVocab, popup, csPending, inbox, build, ensure, reload, match, passes, scans, matches, alarm, cs, embed, setup, page, log>>

\* saveRescanConfig resolves in updateLastScanTimestamp.
StampPut ==
  /\ rescan.stamp.pc = "put"
  /\ rescan' = [rescan EXCEPT !.stored = rescan.stamp.config[1], !.stamp.pc = "done", !.stamp.config = <<>>]
  /\ UNCHANGED <<fs, edits, store, idbVocab, csVocab, dirHandle, history, now, bgVocab, popup, csPending, inbox, build, ensure, reload, match, passes, scans, matches, alarm, cs, embed, setup, page, log>>

\* ------------------------------------- background.ts: the rescan alarm --

\* The alarm "xupload-rescan" fires: the listener calls getDirectoryHandle.
AlarmFires ==
  /\ alarm.pc \in {"idle", "done"}
  /\ alarm.fired < MaxAlarms
  /\ alarm' = [alarm EXCEPT !.pc = "getHandle", !.outcome = "none", !.fired = @ + 1]
  /\ UNCHANGED <<fs, edits, store, idbVocab, csVocab, dirHandle, history, now, bgVocab, popup, csPending, inbox, build, ensure, reload, match, passes, scans, matches, cs, rescan, embed, setup, page, log>>

\* getDirectoryHandle resolves: without a handle the listener returns, with
\* one it calls queryPermission.
AlarmGetHandle ==
  /\ alarm.pc = "getHandle"
  /\ alarm' = IF dirHandle THEN [alarm EXCEPT !.pc = "queryPermission"]
              ELSE [alarm EXCEPT !.pc = "done", !.outcome = "noHandle"]
  /\ UNCHANGED <<fs, edits, store, idbVocab, csVocab, dirHandle, history, now, bgVocab, popup, csPending, inbox, build, ensure, reload, match, passes, scans, matches, cs, rescan, embed, setup, page, log>>

\* queryPermission resolves with perm.  Not granted: the badge "!" is set and
\* the listener returns.  Granted: the badge is cleared, a line is logged and
\* the listener returns.
AlarmQueryPermission(perm) ==
  /\ alarm.pc = "queryPermission"
  /\ alarm' = IF perm = "granted" THEN [alarm EXCEPT !.pc = "done", !.outcome = "granted", !.badge = ""]
              ELSE [alarm EXCEPT !.pc = "done", !.outcome = "notGranted", !.badge = "!"]
  /\ UNCHANGED <<fs, edits, store, idbVocab, csVocab, dirHandle, history, now, bgVocab, popup, csPending, inbox, build, ensure, reload, match, passes, scans, matches, cs, rescan, embed, setup, page, log>>

\* queryPermission throws: the catch logs the error.
AlarmQueryFails ==
  /\ alarm.pc = "queryPermission"
  /\ alarm' = [alarm EXCEPT !.pc = "done", !.outcome = "error"]
  /\ UNCHANGED <<fs, edits, store, idbVocab, csVocab, dirHandle, history, now, bgVocab, popup, csPending, inbox, build, ensure, reload, match, passes, scans, matches, cs, rescan, embed, setup, page, log>>

\* -------------------------------- background.ts: setupRescanAlarm --

\* chrome.runtime.onStartup or onInstalled is delivered: the listener calls
\* setupRescanAlarm (and, on startup, ensureVocab, which starts a load when the
\* vocabulary is empty and none is running).
SetupEvent(e) ==
  /\ e \notin setup.events
  /\ setup' = [setup EXCEPT !.events = @ \cup {e}, !.clearing = @ + 1]
  /\ ensure' = IF e = "onStartup" /\ getVocabSize(bgVocab) = 0 /\ ensure.pc = "done" THEN [pc |-> "getVocab"] ELSE ensure
  /\ UNCHANGED <<fs, edits, store, idbVocab, csVocab, dirHandle, history, now, bgVocab, popup, csPending, inbox, build, reload, match, passes, scans, matches, alarm, cs, rescan, embed, page, log>>

\* The saveCurrentRescanConfig calls that have sent RESCAN_CONFIG_UPDATED.
ConfigMessagesSent == rescan.changes - (IF rescan.save.pc \in {"get", "put"} THEN 1 ELSE 0)

\* RESCAN_CONFIG_UPDATED is received: the listener calls setupRescanAlarm.
SetupMessage ==
  /\ setup.messages < ConfigMessagesSent
  /\ setup' = [setup EXCEPT !.messages = @ + 1, !.clearing = @ + 1]
  /\ UNCHANGED <<fs, edits, store, idbVocab, csVocab, dirHandle, history, now, bgVocab, popup, csPending, inbox, build, reload, match, passes, scans, matches, alarm, cs, rescan, embed, ensure, page, log>>

\* chrome.alarms.clear resolves in an invocation; getRescanConfig is called.
SetupClear ==
  /\ setup.clearing > 0
  /\ setup' = [setup EXCEPT !.alarm = <<>>, !.clearing = @ - 1, !.reading = @ + 1]
  /\ UNCHANGED <<fs, edits, store, idbVocab, csVocab, dirHandle, history, now, bgVocab, popup, csPending, inbox, build, reload, match, passes, scans, matches, alarm, cs, rescan, embed, ensure, page, log>>

\* getRescanConfig resolves in an invocation: the alarm is created when the
\* configuration asks for it, and setupRescanAlarm returns.
SetupGetConfig ==
  /\ setup.reading > 0
  /\ setup' = [setup EXCEPT !.reading = @ - 1,
                            !.alarm = IF rescan.stored.autoRescanEnabled /\ rescan.stored.rescanIntervalMin > 0
                                      THEN <<rescan.stored.rescanIntervalMin>> ELSE @]
  /\ UNCHANGED <<fs, edits, store, idbVocab, csVocab, dirHandle, history, now, bgVocab, popup, csPending, inbox, build, reload, match, passes, scans, matches, alarm, cs, rescan, embed, ensure, page, log>>

\* ------------------------------------------- apiEmbeddings.ts: batchEmbed --

\* data.embedding.values of the answer to the request for the text at position k.
Embedding(k) == <<"e", k>>

\* texts.slice(i, i + batchSize) taking every remaining text.
BatchAllRemaining(e, i) == (i + 1)..e.total

\* texts.slice(i, i + batchSize), as positions of texts.
BatchOf(e, i) == (i + 1)..Min2(i + e.batchSize, e.total)

\* The loop body up to its first await: getEmbedding is called for each text of
\* the batch at i, and each call awaits fetch.
EmbedLaunch(e, i) ==
  [e EXCEPT !.pc = "batch", !.i = i, !.embeddings = EmptyMap,
            !.requests = [k \in DOMAIN e.requests \cup BatchOf(e, i) |-> IF k \in BatchOf(e, i) THEN "fetch" ELSE e.requests[k]]]

\* batchEmbed(texts, apiKey, batchSize, onProgress) is called with `total` texts.
EmbedStart(total, batchSize) ==
  /\ embed.pc = "idle"
  /\ LET e == [EmbedIdle EXCEPT !.total = total, !.batchSize = batchSize]
     IN embed' = IF total = 0 THEN [e EXCEPT !.pc = "done"] ELSE EmbedLaunch(e, 0)
  /\ UNCHANGED <<fs, edits, store, idbVocab, csVocab, dirHandle, history, now, bgVocab, popup, csPending, inbox, build, ensure, reload, match, passes, scans, matches, alarm, cs, rescan, setup, page, log>>

\* fetch resolves for the request of position k: with resp.ok, resp.json() is
\* awaited, otherwise resp.text().
EmbedFetch(k, ok) ==
  /\ k \in DOMAIN embed.requests
  /\ embed.requests[k] = "fetch"
  /\ embed' = [embed EXCEPT !.requests[k] = IF ok THEN "json" ELSE "text"]
  /\ UNCHANGED <<fs, edits, store, idbVocab, csVocab, dirHandle, history, now, bgVocab, popup, csPending, inbox, build, ensure, reload, match, passes, scans, matches, alarm, cs, rescan, setup, page, log>>

\* resp.json() resolves and getEmbedding returns for position k.  When it is the
\* last of the batch, Promise.all resolves: the embeddings are pushed in the
\* order of the batch, onProgress is called, and the delay is awaited or
\* batchEmbed returns.  After a rejection of the batch nobody takes the value.
EmbedJson(k) ==
  /\ k \in DOMAIN embed.requests
  /\ embed.requests[k] = "json"
  /\ LET e == [embed EXCEPT !.requests = Del(@, k)]
         got == Put(embed.embeddings, k, Embedding(k))
         batch == BatchOf(embed, embed.i)
     IN embed' = IF embed.pc # "batch" THEN e
                 ELSE IF ~(batch \subseteq DOMAIN got) THEN [e EXCEPT !.embeddings = got]
                 ELSE [e EXCEPT !.embeddings = got,
                                !.results = @ \o [j \in 1..Cardinality(batch) |-> got[embed.i + j]],
                                !.reports = Append(@, Min2(embed.i + embed.batchSize, embed.total)),
                                !.pc = IF embed.i + embed.batchSize < embed.total THEN "delay" ELSE "done"]
  /\ UNCHANGED <<fs, edits, store, idbVocab, csVocab, dirHandle, history, now, bgVocab, popup, csPending, inbox, build, ensure, reload, match, passes, scans, matches, alarm, cs, rescan, setup, page, log>>

\* getEmbedding throws for position k (fetch rejects, the status is not ok and
\* resp.text() resolves, or the answer has no embedding): Promise.all rejects at
\* once and batchEmbed with it; the other requests of the batch go on.
EmbedReject(k) ==
  /\ k \in DOMAIN embed.requests
  /\ embed' = [embed EXCEPT !.requests = Del(@, k), !.pc = IF @ = "batch" THEN "failed" ELSE @]
  /\ UNCHANGED <<fs, edits, store, idbVocab, csVocab, dirHandle, history, now, bgVocab, popup, csPending, inbox, build, ensure, reload, match, passes, scans, matches, alarm, cs, rescan, setup, page, log>>

\* The 200 ms timer between two batches fires: the loop goes on at i + batchSize.
EmbedDelay ==
  /\ embed.pc = "delay"
  /\ embed' = EmbedLaunch(embed, embed.i + embed.batchSize)
  /\ UNCHANGED <<fs, edits, store, idbVocab, csVocab, dirHandle, history, now, bgVocab, popup, csPending, inbox, build, ensure, reload, match, passes, scans, matches, alarm, cs, rescan, setup, page, log>>

\* ------------------------------------------------------ specifications --

\* One step of the popup's buildIndex.
PopupStep ==
  \/ PopupCollect
  \/ PopupSaveHandle
  \/ PopupGetAll
  \/ PopupRead
  \/ PopupDelete
  \/ PopupNoChange
  \/ PopupClearAll
  \/ PopupUpsertDoc
  \/ PopupUpsertUnchanged
  \/ PopupSaveVocab
  \/ PopupLastScan
  \/ PopupGetCount

\* One step of the background's handleBuildIndex.
BuildStep ==
  \/ BuildClearAll
  \/ BuildUpsert
  \/ BuildSaveVocab
  \/ BuildStorageSet
  \/ BuildGetCount

\* Indexing and matching side by side: a file may disappear, the popup and a
\* content script index the folder, a request is matched, store operations fail.
Next ==
  \/ \E p \in Paths : RemoveFile(p)
  \/ \E incremental \in BOOLEAN : PopupClick(incremental)
  \/ PopupStep
  \/ PopupStoreFails
  \/ PopupStorageSet
  \/ ScanFolder
  \/ \E m \in inbox : BuildStart(m)
  \/ BuildStep
  \/ BuildStoreFails
  \/ \E m \in inbox : ReloadStart(m)
  \/ ReloadGetVocab
  \/ MatchStart(SpecContext, SpecUrl)
  \/ MatchGetVocab
  \/ MatchStorageGet
  \/ MatchSearch
  \/ MatchHistory
  \/ MatchHistoryFails
  \/ MatchStoreFails

Spec == Init /\ [][Next]_vars

\* The popup alone: the user edits the folder, indexes and rescans it, closes
\* the popup in the middle of a pass; the background loads and follows.
NextIndex ==
  \/ \E p \in Paths, c \in Contents : EditFile(p, c)
  \/ \E p \in Paths : RemoveFile(p)
  \/ \E incremental \in BOOLEAN : PopupClick(incremental)
  \/ PopupStep
  \/ PopupReadFails
  \/ PopupReadTextFails
  \/ PopupStoreFails
  \/ PopupStorageSet
  \/ PopupReopen
  \/ EnsureGetVocab
  \/ EnsureStorageGet
  \/ \E m \in inbox : ReloadStart(m)
  \/ ReloadGetVocab

SpecIndex == Init /\ [][NextIndex]_vars

\* Matching over an index built by a content script's scan, with the usage
\* history growing and time passing.
NextRank ==
  \/ ScanFolder
  \/ \E m \in inbox : BuildStart(m)
  \/ BuildStep
  \/ \E c \in Contexts, u \in PageUrls : MatchStart(c, u)
  \/ MatchGetVocab
  \/ MatchStorageGet
  \/ MatchSearch
  \/ MatchHistory
  \/ \E id \in Paths, h \in Hosts : TrackUpload(id, h)
  \/ Tick

SpecRank == Init /\ [][NextRank]_vars

\* The end of handleMatch on more candidates than it returns.  search has
\* resolved with up to MaxCandidates candidates, each of a positive score, in
\* the order search sorted them; the handler awaits getHistoryByHost.  The
\* records behind the candidates are not in the store of this specification.
MaxCandidates == 7

TfidfScores == {200, 600, 1000}

\* The id of candidate k of n: the two files of the folder come last.
CandidateId(k, n) ==
  LET digits == <<"1", "2", "3", "4", "5", "6", "7", "8", "9">>
  IN IF k = n THEN PathCv ELSE IF k = n - 1 THEN PathId ELSE <<"f", digits[k]>>

CandidateScores == UNION {{s \in [1..n -> TfidfScores] : \A k \in 1..(n - 1) : s[k] >= s[k + 1]} : n \in 0..MaxCandidates}

Candidates(s) == [k \in 1..Len(s) |-> [record |-> [id |-> CandidateId(k, Len(s))], score |-> Num(s[k])]]

InitTop ==
  /\ fs = InitialFs
  /\ edits = 0
  /\ store = IndexedStore
  /\ idbVocab = <<exportVocab(IndexedVocab)>>
  /\ csVocab = <<exportVocab(IndexedVocab)>>
  /\ dirHandle = TRUE
  /\ history = <<>>
  /\ now = 1
  /\ bgVocab = IndexedVocab
  /\ popup = PopupClosed
  /\ csPending = <<>>
  /\ inbox = {}
  /\ build = BuildIdle
  /\ ensure = [pc |-> "done"]
  /\ reload = [pc |-> "idle"]
  /\ \E s \in CandidateScores :
       match = [MatchIdle EXCEPT !.pc = "history", !.context = SpecContext, !.pageUrl = SpecUrl,
                                 !.queryVec = vectorize(tokenize(SpecContext), IndexedVocab),
                                 !.queryModel = <<IndexedVocab>>, !.results = Candidates(s)]
  /\ passes = 0
  /\ scans = 0
  /\ matches = 1
  /\ alarm = AlarmIdle
  /\ cs = CsIdle
  /\ rescan = RescanIdle
  /\ embed = EmbedIdle
  /\ setup = SetupIdle
  /\ page = PageIdle
  /\ log = LogIdle

NextTop ==
  \/ \E id \in Paths, h \in Hosts : TrackUpload(id, h)
  \/ Tick
  \/ MatchHistory

SpecTop == InitTop /\ [][NextTop]_vars

\* The end of handleMatch on one candidate of an arbitrary path, for a request
\* of an arbitrary context: paths with every separator, with a repeated
\* segment, in upper case, of CJK characters, of separators only and empty;
\* contexts that share tokens with them, blank and empty.
PathInputs ==
  {<<>>,
   <<"_", "-", ".">>,
   PathCv,
   <<"c", "v", "/", "c", "v", ".", "m", "d">>,
   <<"C", "V", "\\", "t", "a", "x", "_", "i", "d", "-", "2", ".", "M", "D">>,
   <<"zh1", "zh2", ".", "m", "d">>,
   <<"t", "a", "x", "i", "d">>}

PathContexts ==
  {<<>>,
   <<" ">>,
   <<"c", "v">>,
   <<"C", "v", " ", "c", "v", " ", "m", "d">>,
   <<"t", "a", "x", " ", "i", "d", " ", "2">>,
   <<"zh1", "zh2", "zh3">>}

InitPath ==
  /\ fs = InitialFs
  /\ edits = 0
  /\ store = IndexedStore
  /\ idbVocab = <<exportVocab(IndexedVocab)>>
  /\ csVocab = <<exportVocab(IndexedVocab)>>
  /\ dirHandle = TRUE
  /\ history = <<>>
  /\ now = 1
  /\ bgVocab = IndexedVocab
  /\ popup = PopupClosed
  /\ csPending = <<>>
  /\ inbox = {}
  /\ build = BuildIdle
  /\ ensure = [pc |-> "done"]
  /\ reload = [pc |-> "idle"]
  /\ \E filePath \in PathInputs, context \in PathContexts :
       match = [MatchIdle EXCEPT !.pc = "history", !.context = context, !.pageUrl = SpecUrl,
                                 !.results = <<[record |-> [id |-> filePath], score |-> Num(600)]>>]
  /\ passes = 0
  /\ scans = 0
  /\ matches = 1
  /\ alarm = AlarmIdle
  /\ cs = CsIdle
  /\ rescan = RescanIdle
  /\ embed = EmbedIdle
  /\ setup = SetupIdle
  /\ page = PageIdle
  /\ log = LogIdle

SpecPath == InitPath /\ [][NextTop]_vars

\* A content script indexes a folder of one or two text files of arbitrary
\* content: empty, blank, mixed case with digits, CJK characters next to each
\* other and CJK characters that a space, a letter or a comma separates.
TextInputs ==
  {<<>>,
   <<" ", "A", "b", "1", "-", "b", " ">>,
   <<"zh1">>,
   <<"zh1", "zh2">>,
   <<"zh1", " ", "zh2">>,
   <<"zh1", "a", "zh2">>,
   <<"zh1", "zh2", ",", "zh3">>,
   <<"X", "zh3", "zh2", "zh1", "9">>}

TextFolders ==
  {(PathCv :> [size |-> Len(c), lastModified |-> 1, content |-> c]) : c \in TextInputs}
  \cup {(PathCv :> [size |-> Len(c), lastModified |-> 1, content |-> c]) @@ (PathId :> [size |-> Len(d), lastModified |-> 1, content |-> d]) : c, d \in TextInputs}

InitText ==
  /\ fs \in TextFolders
  /\ edits = 0
  /\ store = EmptyMap
  /\ idbVocab = <<>>
  /\ csVocab = <<>>
  /\ dirHandle = FALSE
  /\ history = <<>>
  /\ now = 1
  /\ bgVocab = EmptyVocabulary
  /\ popup = PopupClosed
  /\ csPending = <<>>
  /\ inbox = {}
  /\ build = BuildIdle
  /\ ensure = [pc |-> "done"]
  /\ reload = [pc |-> "idle"]
  /\ match = MatchIdle
  /\ passes = 0
  /\ scans = 0
  /\ matches = 0
  /\ alarm = AlarmIdle
  /\ cs = CsIdle
  /\ rescan = RescanIdle
  /\ embed = EmbedIdle
  /\ setup = SetupIdle
  /\ page = PageIdle
  /\ log = LogIdle

NextText ==
  \/ ScanFolder
  \/ \E m \in inbox : BuildStart(m)
  \/ BuildStep

SpecText == InitText /\ [][NextText]_vars

\* One call of batchEmbed on up to MaxTexts texts with a batchSize of 1 to
\* MaxBatchSize, its requests settling in any order.
NextEmbed ==
  \/ \E total \in 0..MaxTexts, batchSize \in 1..MaxBatchSize : EmbedStart(total, batchSize)
  \/ \E k \in 1..MaxTexts, ok \in BOOLEAN : EmbedFetch(k, ok)
  \/ \E k \in 1..MaxTexts : EmbedJson(k)
  \/ \E k \in 1..MaxTexts : EmbedReject(k)
  \/ EmbedDelay

SpecEmbed == Init /\ [][NextEmbed]_vars

\* The background loads on a fresh installation, on what an earlier session
\* indexed, or on what a version that kept the vocabulary in
\* chrome.storage.local alone left (no snapshot in IndexedDB, no directory
\* handle); requests arrive and a content script indexes the folder.
InitEnsure ==
  /\ fs = InitialFs
  /\ edits = 0
  /\ \/ /\ store = EmptyMap
        /\ idbVocab = <<>>
        /\ csVocab = <<>>
        /\ dirHandle = FALSE
     \/ /\ store = IndexedStore
        /\ idbVocab = <<exportVocab(IndexedVocab)>>
        /\ csVocab = <<exportVocab(IndexedVocab)>>
        /\ dirHandle = TRUE
     \/ /\ store = IndexedStore
        /\ idbVocab = <<>>
        /\ csVocab = <<exportVocab(IndexedVocab)>>
        /\ dirHandle = FALSE
  /\ history = <<>>
  /\ now = 1
  /\ bgVocab = EmptyVocabulary
  /\ popup = PopupClosed
  /\ csPending = <<>>
  /\ inbox = {}
  /\ build = BuildIdle
  /\ ensure = [pc |-> "getVocab"]
  /\ reload = [pc |-> "idle"]
  /\ match = MatchIdle
  /\ passes = 0
  /\ scans = 0
  /\ matches = 0
  /\ alarm = AlarmIdle
  /\ cs = CsIdle
  /\ rescan = RescanIdle
  /\ embed = EmbedIdle
  /\ setup = SetupIdle
  /\ page = PageIdle
  /\ log = LogIdle

NextEnsure ==
  \/ EnsureGetVocab
  \/ EnsureStorageGet
  \/ \E c \in Contexts : MatchStart(c, SpecUrl)
  \/ MatchGetVocab
  \/ MatchStorageGet
  \/ MatchSearch
  \/ MatchHistory
  \/ \E p \in Paths : RemoveFile(p)
  \/ ScanFolder
  \/ \E m \in inbox : BuildStart(m)
  \/ BuildStep

SpecEnsure == InitEnsure /\ [][NextEnsure]_vars

\* A folder indexed by an earlier full pass in which cv.md is longer than the
\* stored preview: "tax " twenty-four times and "id", 98 characters.
LongContent == Concat([k \in 1..24 |-> <<"t", "a", "x", " ">>]) \o <<"i", "d">>

LongFs == (PathCv :> [size |-> Len(LongContent), lastModified |-> 1, content |-> LongContent]) @@ (PathId :> InitialFs[PathId])

\* What buildIndex(dirHandle, false) reads, builds and stores over the files f.
FullDocs(f) == [k \in 1..Len(KeysInOrder(f)) |-> DocEntry(KeysInOrder(f)[k], f[KeysInOrder(f)[k]], extractText(KeysInOrder(f)[k], f[KeysInOrder(f)[k]]))]

FullVocab(f) == buildVocabulary([k \in 1..Len(FullDocs(f)) |-> tokenize(FullDocs(f)[k].text)])

FullStore(f) ==
  [p \in DOMAIN f |-> LET k == IndexOf(KeysInOrder(f), p)
                      IN VectorRecord(FullDocs(f)[k], tokenize(FullDocs(f)[k].text), FullVocab(f))]

InitLong ==
  /\ fs = LongFs
  /\ edits = 0
  /\ store = FullStore(LongFs)
  /\ idbVocab = <<exportVocab(FullVocab(LongFs))>>
  /\ csVocab = <<exportVocab(FullVocab(LongFs))>>
  /\ dirHandle = TRUE
  /\ history = <<>>
  /\ now = 1
  /\ bgVocab = EmptyVocabulary
  /\ popup = PopupClosed
  /\ csPending = <<>>
  /\ inbox = {}
  /\ build = BuildIdle
  /\ ensure = [pc |-> "getVocab"]
  /\ reload = [pc |-> "idle"]
  /\ match = MatchIdle
  /\ passes = 0
  /\ scans = 0
  /\ matches = 0
  /\ alarm = AlarmIdle
  /\ cs = CsIdle
  /\ rescan = RescanIdle
  /\ embed = EmbedIdle
  /\ setup = SetupIdle
  /\ page = PageIdle
  /\ log = LogIdle

\* The user edits that folder and runs one pass from the popup, every file
\* being readable and every store call resolving.
NextLong ==
  \/ \E p \in Paths, c \in Contents : EditFile(p, c)
  \/ \E p \in Paths : RemoveFile(p)
  \/ \E incremental \in BOOLEAN : PopupClick(incremental)
  \/ PopupStep
  \/ PopupStorageSet

SpecLong == InitLong /\ [][NextLong]_vars

\* One popup page from its opening on: the user edits the folder and runs a
\* pass; a promise buildIndex awaits resolves or rejects.  The page is not closed.
NextButtons ==
  \/ \E p \in Paths, c \in Contents : EditFile(p, c)
  \/ \E p \in Paths : RemoveFile(p)
  \/ \E incremental \in BOOLEAN : PopupClick(incremental)
  \/ PopupStep
  \/ PopupStoreFails
  \/ PopupCollectFails
  \/ PopupStorageSet

SpecButtons == Init /\ [][NextButtons]_vars

\* The periodic rescan: the user edits the folder and indexes it from the
\* popup while the rescan alarm fires.
NextAlarm ==
  \/ \E p \in Paths, c \in Contents : EditFile(p, c)
  \/ \E p \in Paths : RemoveFile(p)
  \/ \E incremental \in BOOLEAN : PopupClick(incremental)
  \/ PopupStep
  \/ PopupStorageSet
  \/ AlarmFires
  \/ AlarmGetHandle
  \/ \E perm \in {"granted", "prompt", "denied"} : AlarmQueryPermission(perm)
  \/ AlarmQueryFails

SpecAlarm == Init /\ [][NextAlarm]_vars

\* A recommendation asked for on a page: the content script's flow from the
\* click to the preview and the fill, the background answering its
\* MATCH_REQUEST and recording the files used.  An index
\* exists whenever doMatch runs, so getVocab finds a snapshot.
NextRecommend ==
  \/ \E c \in Contexts : RecommendClick(c)
  \/ RecommendCount
  \/ \E config \in Configs : DoMatchConfig(config)
  \/ \E outcome \in {"base64", "none", "failed"} : DoMatchCapture(outcome)
  \/ \E outcome \in {"results", "empty", "undefined", "rejected"}, items \in {<<>>, <<PathId, PathCv>>} : DoMatchEnhanced(outcome, items)
  \/ cs.pc = "match" /\ matches = cs.req /\ MatchStart(cs.context, SpecUrl)
  \/ MatchGetVocab
  \/ MatchSearch
  \/ MatchHistory
  \/ DoMatchResponse
  \/ \E k \in 1..2, readable \in BOOLEAN : PanelSelect(k, readable)
  \/ PreviewBack
  \/ \E success \in BOOLEAN : PreviewUse(success)
  \/ PanelClose
  \/ \E m \in inbox : TrackUploadReceived(m)
  \/ Tick

SpecRecommend == Init /\ [][NextRecommend]_vars

\* The panels of a page: lightning buttons, results, Back, "Use this file" and
\* the scan prompt are clicked in any order while the answers of the
\* background and the timers arrive in any order; the background indexes what
\* an inline scan sends and records the files used.
NextPage ==
  \/ PageRecommendClick
  \/ \E f \in 1..MaxClicks, rejected \in BOOLEAN : PageCount(f, rejected)
  \/ \E f \in 1..MaxClicks, config \in Configs : PageConfig(f, config)
  \/ \E f \in 1..MaxClicks : PageCapture(f)
  \/ \E f \in 1..MaxClicks, outcome \in {"results", "empty", "rejected"}, items \in {<<>>, <<PathId, PathCv>>} : PageAnswer(f, outcome, items)
  \/ \E p \in 1..MaxClicks : PageListen(p)
  \/ \E q \in 0..MaxClicks : PageOutsideClick(q)
  \/ \E p \in 1..MaxClicks : PageScanClick(p)
  \/ \E f \in 1..MaxClicks : PageScanCancelled(f)
  \/ \E f \in 1..MaxClicks : PageScanPicked(f)
  \/ \E m \in inbox : BuildStart(m)
  \/ BuildStep
  \/ \E f \in 1..MaxClicks : PageScanDone(f)
  \/ \E p \in 1..MaxClicks, k \in 1..2 : PageItemClick(p, k)
  \/ \E f \in 1..MaxClicks, readable \in BOOLEAN : PageFile(f, readable)
  \/ \E p \in 1..MaxClicks : PageBack(p)
  \/ \E p \in 1..MaxClicks, success \in BOOLEAN : PageUse(p, success)
  \/ \E p \in 1..MaxClicks : PageUseTimeout(p)
  \/ \E m \in inbox : TrackUploadReceived(m)

SpecPage == Init /\ [][NextPage]_vars

\* The logger of one context: entries are logged, stored entries are loaded, a
\* persister is set, and the flush time-out fires.
NextLog ==
  \/ LogWorkflowStep
  \/ LogWorkflowError
  \/ \E k \in 0..(MAX_LOG_ENTRIES + 1) : LoadPersistedLogs(PersistedLogs(k))
  \/ SetLogPersister
  \/ LogFlush

SpecLog == Init /\ [][NextLog]_vars

\* The time-out set by schedulePersist fires while the context lives.
SpecLogLive == Init /\ [][NextLog]_vars /\ WF_vars(LogFlush)

\* The popup over an unedited folder: passes whose updateLastScanTimestamp is
\* followed step by step, and the user changing the auto-rescan controls.
StampDone == rescan.stamp.pc = "done" /\ rescan.stamp.pass = passes

NextConfig ==
  \/ \E incremental \in BOOLEAN : PopupClick(incremental)
  \/ PopupCollect
  \/ PopupSaveHandle
  \/ PopupGetAll
  \/ PopupRead
  \/ PopupClearAll
  \/ PopupUpsertDoc
  \/ PopupSaveVocab
  \/ PopupStorageSet
  \/ StampStart
  \/ StampGet
  \/ StampPut
  \/ StampDone /\ PopupNoChange
  \/ StampDone /\ PopupLastScan
  \/ PopupGetCount
  \/ \E enabled \in BOOLEAN, interval \in {5, 30} : ConfigChange(enabled, interval)
  \/ SaveConfigGet
  \/ SaveConfigPut

SpecConfig == Init /\ [][NextConfig]_vars

\* The alarm set-up: the background is loaded, the browser delivers onStartup
\* and onInstalled, and the user changes the rescan settings in the popup and
\* runs passes, which stamp the configuration.
NextSetup ==
  \/ NextConfig
  \/ \E e \in {"onStartup", "onInstalled"} : SetupEvent(e)
  \/ SetupMessage
  \/ SetupClear
  \/ SetupGetConfig

SpecSetup == Init /\ [][NextSetup]_vars

\* A folder of seventeen files indexed by a full pass: cv.md and id.md, z files
\* of the directory cv/ that hold "zz", and, at the top, a files that hold "Cv"
\* and b files that hold "Cv" among other words, in one order or the other.  At
\* most MaxNoiseFiles files hold "zz", and one of the two other contents is held
\* by at most MaxFewFiles files.
MaxNoiseFiles == 2

MaxFewFiles == 2

BigFs(z, a, b, cvFirst) ==
  LET file(c) == [size |-> Len(c), lastModified |-> 1, content |-> c]
      cv == <<"C", "v">>
      weak == <<"C", "v", " ", "z", "z", " ", "q", "q">>
      ids == {PathCv, PathId} \cup {NoiseId(k) : k \in 1..z} \cup {FormId(k) : k \in 1..(a + b)}
  IN [p \in ids |-> IF p \in Paths THEN InitialFs[p]
                    ELSE IF \E k \in 1..z : p = NoiseId(k) THEN file(<<"z", "z">>)
                    ELSE LET k == CHOOSE j \in 1..(a + b) : p = FormId(j)
                         IN IF cvFirst THEN (IF k <= a THEN file(cv) ELSE file(weak))
                            ELSE (IF k <= b THEN file(weak) ELSE file(cv))]

InitSearch ==
  /\ \E z \in 0..MaxNoiseFiles, a \in 0..MaxExtraFiles, order \in BOOLEAN :
       /\ z + a <= MaxExtraFiles
       /\ a <= MaxFewFiles \/ MaxExtraFiles - z - a <= MaxFewFiles
       /\ \E f \in {BigFs(z, a, MaxExtraFiles - z - a, order)} :
            \E V \in {FullVocab(f)} :
              \E snapshot \in {exportVocab(V)} :
                /\ fs = f
                /\ store = FullStore(f)
                /\ idbVocab = <<snapshot>>
                /\ csVocab = <<snapshot>>
                /\ bgVocab = V
  /\ edits = 0
  /\ dirHandle = TRUE
  /\ history = <<>>
  /\ now = 1
  /\ popup = PopupClosed
  /\ csPending = <<>>
  /\ inbox = {}
  /\ build = BuildIdle
  /\ ensure = [pc |-> "done"]
  /\ reload = [pc |-> "idle"]
  /\ match = MatchIdle
  /\ passes = 0
  /\ scans = 0
  /\ matches = 0
  /\ alarm = AlarmIdle
  /\ cs = CsIdle
  /\ rescan = RescanIdle
  /\ embed = EmbedIdle
  /\ setup = SetupIdle
  /\ page = PageIdle
  /\ log = LogIdle

\* Requests over that index, with uploads of cv.md, of a file of cv/ and of the
\* first file at the top tracked for the page's host.
NextSearch ==
  \/ \E c \in Contexts, u \in {"none", SpecUrl} : MatchStart(c, u)
  \/ MatchSearch
  \/ MatchHistory
  \/ \E id \in {PathCv, NoiseId(1), FormId(1)} : id \in DOMAIN store /\ TrackUpload(id, SpecUrl)

SpecSearch == InitSearch /\ [][NextSearch]_vars

\* ---------------------------------------------------------------- claims --

\* The popup's pass has returned / the background's build is between its start
\* and its end.
PopupRunning == popup.pc \notin {"idle", "done", "failed"}

BuildRunning == build.pc \notin {"idle", "done", "rejected"}

\* The pass has had every upsert of its re-vectorized records resolve.
PopupUpsertsDone == popup.upserted = Len(popup.docs) + (IF popup.incremental THEN Len(popup.unchangedDocs) ELSE 0)

BuildUpsertsDone == build.upserted = Len(build.files)

\* The stored fingerprint of path equals the file's.
SameFingerprint(existing, path, file) ==
  /\ path \in DOMAIN existing
  /\ existing[path].size = file.size
  /\ existing[path].lastModified = file.lastModified

\* C1: once an incremental pass of the popup that did not take the no-change
\* exit has returned, every record in the store holds a vector computed under
\* the vocabulary that pass rebuilt, of that vocabulary's length.
C1Claim ==
  (popup.pc = "done" /\ popup.incremental /\ popup.saved) =>
    \A id \in DOMAIN store :
      /\ store[id].model = popup.vocab
      /\ Len(store[id].vector) = getVocabSize(popup.vocab)

\* C2: whenever handleMatch has scored the stored records, every record it
\* scored held a vector computed under the vocabulary of the query vector.
C2Claim ==
  match.pc \in {"history", "done"} =>
    \A k \in 1..Len(match.scored) : match.scored[k].model = match.queryModel[1]

\* An incremental pass has returned; the folder holds exactly the files the
\* store described when the pass read it, with their sizes and modification
\* times, and nobody changed it during the pass.
C3Premise ==
  /\ popup.pc = "done"
  /\ popup.incremental
  /\ fs = popup.fsAtCollect
  /\ DOMAIN popup.existingMap = DOMAIN fs
  /\ \A path \in DOMAIN fs : SameFingerprint(popup.existingMap, path, fs[path])

\* C3: an incremental pass over a folder in which no file was added, modified
\* or deleted since the store was written reports nothing added, modified or
\* deleted, writes nothing, and leaves the store and the persisted vocabulary
\* as they were.
C3Theorem ==
  C3Premise =>
    /\ Len(popup.docs) = 0
    /\ popup.deleted = 0
    /\ ~popup.wrote
    /\ ~popup.saved
    /\ store = popup.existingMap
    /\ idbVocab = popup.idbAtStart

C3Witness == C3Premise /\ Cardinality(DOMAIN store) = 2 /\ idbVocab # <<>>

\* C4: when an incremental pass of the popup returns, every id in the store is
\* a path the pass enumerated.
C4Claim ==
  [][(popup.incremental /\ popup.pc \in {"getCount", "noChange"} /\ popup'.pc = "done")
       => DOMAIN store' \subseteq Range(popup.entries)]_vars

\* One step: the persisted vocabulary changes only by the snapshot of a pass
\* whose every upsert has resolved (or by ensureVocab's copy), and a pass that
\* fails before its upserts are done has saved nothing.
C5Step ==
  /\ idbVocab' # idbVocab =>
       \/ popup.pc = "saveVocab" /\ PopupUpsertsDone /\ idbVocab' = popup.vocabOut
       \/ build.pc = "saveVocab" /\ BuildUpsertsDone /\ idbVocab' = build.vocabOut
       \/ match.pc = "storageGet" /\ idbVocab' = csVocab
       \/ ensure.pc = "storageGet" /\ idbVocab' = csVocab
  /\ (csPending' # csPending /\ csPending' # <<>>) =>
       popup.pc = "saveVocab" /\ PopupUpsertsDone /\ csPending' = popup.vocabOut
  /\ csVocab' # csVocab =>
       \/ csPending # <<>> /\ csVocab' = csPending
       \/ build.pc = "storageSet" /\ BuildUpsertsDone /\ build.saved /\ csVocab' = build.vocabOut
  /\ (popup'.pc = "failed" /\ ~PopupUpsertsDone) => (~popup.saved /\ csPending' = csPending)
  /\ (build'.pc = "rejected" /\ ~BuildUpsertsDone) => ~build.saved

\* C5: in every pass of the popup and of the background, the vocabulary
\* snapshot is persisted (IndexedDB, chrome.storage.local) only after every
\* upsert of the pass has resolved; a pass abandoned earlier persists none.
C5Theorem == [][C5Step]_vars

C5Witness ==
  /\ popup.saved
  /\ popup.incremental
  /\ popup.deleted = 1
  /\ Len(popup.unchangedDocs) = 1
  /\ popup.upserted = 1
  /\ idbVocab = popup.vocabOut
  /\ idbVocab # popup.idbAtStart

\* C6: while one pass has begun to clear, delete or upsert records and has not
\* returned, no other pass has done so.
C6Claim == ~(PopupRunning /\ popup.wrote /\ BuildRunning /\ build.wrote)

\* C7: in an incremental pass, every file whose text was extracted had no
\* stored record, or a stored record of another size or modification time.
C7Theorem ==
  popup.incremental =>
    \A k \in 1..Len(popup.extracted) :
      ~SameFingerprint(popup.existingMap, popup.extracted[k].path, popup.extracted[k])

C7Witness ==
  /\ popup.incremental
  /\ Len(popup.extracted) = 1
  /\ Len(popup.unchangedDocs) = 1
  /\ popup.extracted[1].path \in DOMAIN popup.existingMap

\* C8: a MATCH_REQUEST or BUILD_INDEX whose handling ended with a store
\* operation failing was answered.
C8Claim ==
  /\ build.pc = "rejected" => build.responded
  /\ match.pc = "rejected" => match.responded

\* Every token of the context is outside the vocabulary V.
AllOov(context, V) == \A t \in Range(tokenize(context)) : t \notin DOMAIN V.vocabulary

\* C9: a request whose every token is outside the vocabulary handleMatch
\* vectorized it under (the empty vocabulary included) does not fail and is
\* answered with the empty list, whether the query vector is empty or all zero.
C9Theorem ==
  (match.queryModel # <<>> /\ AllOov(match.context, match.queryModel[1])) =>
    /\ match.pc \in {"search", "history", "done"}
    /\ match.pc = "done" => (match.responded /\ match.top = <<>>)
    /\ match.pc = "history" => match.results = <<>>

C9Witness ==
  /\ match.pc = "done"
  /\ match.context # <<>>
  /\ AllOov(match.context, match.queryModel[1])
  /\ Len(match.queryVec) > 0
  /\ Len(match.scored) = 2

\* The history holds an entry of the host that references id.
HasEntry(host, id) == \E i \in 1..Len(history) : history[i].websiteHost = host /\ history[i].fileId = id

\* One step: handleMatch answers, and each candidate of the answer is scored
\* with the history split exactly when HasEntry holds for it.
C10Step ==
  (match.pc # "done" /\ match'.pc = "done") =>
    \A k \in 1..Len(match'.top) :
      LET r == match'.top[k]
      IN IF HasEntry(match.pageUrl, r.record.id)
         THEN /\ r.score.v = 500 * r.tfidf + 350 * r.boost + 150 * r.pathName
              /\ r.boost >= 100
              /\ r.historyCount = Cardinality({i \in 1..Len(history) : history[i].websiteHost = match.pageUrl /\ history[i].fileId = r.record.id})
         ELSE /\ r.score.v = 750 * r.tfidf + 250 * r.pathName
              /\ r.historyCount = 0

C11Step ==
  (match.pc # "done" /\ match'.pc = "done") =>
    LET hist == IF match.pageUrl \in Hosts THEN getHistoryByHost(match.pageUrl) ELSE <<>>
        top == match'.top
        withHist == {k \in 1..Len(top) : HasEntry(match.pageUrl, top[k].record.id)}
        elapsed(k) == Days[now] - HistoryMapGet(hist, top[k].record.id).lastTs
    IN /\ \A k \in withHist : top[k].boost >= 100
       /\ \A k, l \in withHist : elapsed(k) <= elapsed(l) => top[k].boost >= top[l].boost
       /\ \A i, j \in 1..Len(Days) :
            /\ HistoryBoost(Days[now], Days[i]) >= 100
            /\ Days[now] - Days[i] <= Days[now] - Days[j] =>
                 HistoryBoost(Days[now], Days[i]) >= HistoryBoost(Days[now], Days[j])

\* C11: the history boost handleMatch computes for a candidate with history on
\* the request's host does not grow with the time since the most recent use and
\* is never below 0.1, for every time stamp an entry can carry.
C11Theorem == [][C11Step]_vars

C11Witness ==
  /\ match.pc = "done"
  /\ Len(match.top) = 2
  /\ match.top[1].historyCount > 0
  /\ match.top[2].historyCount > 0
  /\ match.top[1].boost # match.top[2].boost
  /\ \E k \in 1..2 : match.top[k].boost = 100

\* One step: handleMatch answers; its items are at most five of the re-scored
\* candidates, each of a positive score, in non-increasing order, as many as
\* there are positive candidates up to five, and no candidate left out has a
\* positive score above one of them.
C12Step ==
  (match.pc # "done" /\ match'.pc = "done") =>
    LET hist == IF match.pc = "history" THEN getHistoryByHost(match.pageUrl) ELSE <<>>
        ranked == [k \in 1..Len(match.results) |-> Rerank(match.results[k], hist, match.context, Days[now])]
        positive == {k \in 1..Len(ranked) : NumPositive(ranked[k].score)}
        top == match'.top
    IN /\ Len(top) <= 5
       /\ Len(top) = Min2(5, Cardinality(positive))
       /\ \A k \in 1..Len(top) : NumPositive(top[k].score) /\ top[k] \in Range(ranked)
       /\ \A k, l \in 1..Len(top) : k < l => (top[k].score.v >= top[l].score.v /\ top[k] # top[l])
       /\ \A j \in positive : ranked[j] \notin Range(top) =>
            \A k \in 1..Len(top) : top[k].score.v >= ranked[j].score.v

\* C12: handleMatch returns at most 5 items, each of fused score > 0, in
\* non-increasing order of fused score, and they are the 5 highest-scoring
\* candidates of positive score: cutting to 5 before dropping the non-positive
\* scores loses no positive candidate.
C12Theorem == [][C12Step]_vars

C12Witness ==
  /\ match.pc = "done"
  /\ Len(match.results) = MaxCandidates
  /\ Len(match.top) = 5
  /\ match.top[1].record.id = PathCv
  /\ match.results[1].score.v > match.results[MaxCandidates].score.v
  /\ match.top[1].hasHistory
  /\ ~match.top[2].hasHistory

\* The vocabularies built by buildVocabulary that the state holds: the popup's
\* and the background's module state.
BuiltVocabularies == {popup.vocab, bgVocab}

\* C13: for every vocabulary built by buildVocabulary, importVocab(exportVocab())
\* leaves every term with the same index and the same idf weight, and vectorize
\* on the same tokens returns the same vector before and after the round trip.
C13Theorem ==
  \A V \in BuiltVocabularies :
    LET W == importVocab(exportVocab(V))
    IN /\ DOMAIN W.vocabulary = DOMAIN V.vocabulary
       /\ \A t \in DOMAIN V.vocabulary : W.vocabulary[t] = V.vocabulary[t] /\ W.idfValues[t] = V.idfValues[t]
       /\ \A c \in Contexts \cup Contents : vectorize(tokenize(c), W) = vectorize(tokenize(c), V)

C13Witness ==
  /\ reload.pc = "done"
  /\ popup.saved
  /\ idbVocab = popup.vocabOut
  /\ bgVocab = popup.vocab
  /\ getVocabSize(bgVocab) >= 3
  /\ \E t, u \in DOMAIN bgVocab.idfValues : bgVocab.idfValues[t] # bgVocab.idfValues[u]
  /\ \E i \in 1..getVocabSize(bgVocab) : vectorize(tokenize(SpecContext), bgVocab)[i] > 0

\* The vocabulary states the program holds or would import: the module state of
\* the popup and of the background, and the import of each stored snapshot.
VocabularyStates ==
  {popup.vocab, bgVocab} \cup {importVocab(idbVocab[k]) : k \in 1..Len(idbVocab)}
                         \cup {importVocab(csVocab[k]) : k \in 1..Len(csVocab)}

\* C14: under every vocabulary state reached through buildVocabulary or
\* importVocab, vectorize returns, for every token sequence, a vector as long
\* as getVocabSize(), and a zero-length vector under the empty vocabulary; the
\* stored vectors have the length of the vocabulary they were computed under.
C14Theorem ==
  /\ \A V \in VocabularyStates : \A c \in Contexts \cup Contents :
       /\ Len(vectorize(tokenize(c), V)) = getVocabSize(V)
       /\ getVocabSize(V) = 0 => vectorize(tokenize(c), V) = <<>>
  /\ \A id \in DOMAIN store : Len(store[id].vector) = getVocabSize(store[id].model)

C14Witness ==
  /\ reload.pc = "done"
  /\ edits = 1
  /\ popup.saved
  /\ bgVocab = popup.vocab
  /\ bgVocab # IndexedVocab
  /\ getVocabSize(bgVocab) > 0
  /\ DOMAIN store = Paths
  /\ \A id \in DOMAIN store : store[id].model = bgVocab

\* The popup's pass is between buildVocabulary and the end of its upserts: its
\* module state is the vocabulary built from allTokens.
PopupBuilt == popup.pc \in {"clearAll", "upsertDoc", "upsertUnchanged", "saveVocab"}

\* The number of the documents that hold the term t.
DocFrequency(docs, t) == Cardinality({i \in 1..Len(docs) : t \in Range(docs[i])})

\* C15: for the corpus of N >= 0 documents a pass built its vocabulary from,
\* the vocabulary holds the terms of the documents, every term has
\* 1 <= df <= N, and its idf weight is strictly positive (at least 1).
C15Theorem ==
  PopupBuilt =>
    LET docs == popup.allTokens
        V == popup.vocab
    IN /\ DOMAIN V.vocabulary = UNION {Range(docs[i]) : i \in 1..Len(docs)}
       /\ DOMAIN V.idfValues = DOMAIN V.vocabulary
       /\ \A t \in DOMAIN V.vocabulary :
            /\ 1 <= DocFrequency(docs, t)
            /\ DocFrequency(docs, t) <= Len(docs)
            /\ V.idfValues[t] > 0
            /\ V.idfValues[t] >= 1000

C15Witness ==
  /\ PopupBuilt
  /\ Len(popup.allTokens) = 2
  /\ \E t \in DOMAIN popup.vocab.vocabulary : DocFrequency(popup.allTokens, t) = 2 /\ popup.vocab.idfValues[t] = 1000
  /\ \E t \in DOMAIN popup.vocab.vocabulary : DocFrequency(popup.allTokens, t) = 1 /\ popup.vocab.idfValues[t] > 1000

\* C16: when the rescan alarm's handler finds a stored directory handle and a
\* granted read permission, that step starts an incremental pass or sends a
\* message that starts one.
C16Claim ==
  [][(alarm.pc = "queryPermission" /\ alarm'.pc = "done" /\ alarm'.outcome = "granted")
       => \/ popup'.pc = "collect" /\ popup'.incremental /\ popup.pc # "collect"
          \/ inbox' # inbox
          \/ build' # build]_vars

\* C17: when the panel of a recommendation is shown after the remote-scorer
\* path failed (MATCH_REQUEST_ENHANCED rejected or gave no response, or the
\* screenshot capture failed), the request was not aborted with the error
\* panel, and after a failed enhanced request MATCH_REQUEST was sent.
C17Claim ==
  (cs.pc = "shown" /\ (cs.enhanced \in {"undefined", "rejected"} \/ cs.capture = "failed")) =>
    /\ cs.panel # "error"
    /\ cs.enhanced \in {"undefined", "rejected"} => cs.sentMatch

\* C18: after a pass that returned over a folder nobody changed meanwhile,
\* every file the pass enumerated, the ones that could not be read included,
\* has a record in the store that this pass computed.
C18Claim ==
  (popup.pc = "done" /\ popup.saved /\ fs = popup.fsAtCollect) =>
    \A path \in Range(popup.entries) : path \in DOMAIN store /\ store[path].model = popup.vocab

\* C19: once saveCurrentRescanConfig and updateLastScanTimestamp have both
\* completed, in whatever interleaving, the stored configuration holds the
\* user's latest enabled flag and interval and the new last-scan time stamp.
C19Claim ==
  (rescan.save.pc = "done" /\ rescan.stamp.pc = "done") =>
    /\ rescan.stored.autoRescanEnabled = rescan.checkbox
    /\ rescan.stored.rescanIntervalMin = rescan.select
    /\ rescan.stored.lastScanTimestamp = rescan.stamp.pass

\* The usage history entries created or on their way: the stored ones and the
\* TRACK_UPLOAD messages not yet handled.
TrackPending == {m \in inbox : m.type = "TRACK_UPLOAD"}

\* One step: TRACK_UPLOAD is sent exactly by a click on "Use this file" whose
\* fill succeeds, once, for the file of the preview; Back, an outside click and
\* a fill that fails send none; the history only grows at its end, by the entry
\* of a message received.
C20Step ==
  LET useClick == cs.pc = "preview" /\ cs'.uses = cs.uses + 1
      filled == useClick /\ cs'.confirmed = cs.confirmed + 1
  IN /\ filled => \E m \in TrackPending' \ TrackPending :
                    /\ TrackPending' = TrackPending \cup {m}
                    /\ m.files[1].fileId = cs.selected[1]
                    /\ history' = history
     /\ ~filled => TrackPending' \subseteq TrackPending
     /\ cs'.confirmed # cs.confirmed => useClick
     /\ (cs.pc = "preview" /\ cs'.pc \in {"closed", "getConfig"}) => (TrackPending' = TrackPending /\ history' = history)
     /\ Len(history') >= Len(history)
     /\ \A i \in 1..Len(history) : history'[i] = history[i]
     /\ history' # history => \E m \in TrackPending \ TrackPending' : history' = Append(history, m.files[1])
     /\ Len(history') + Cardinality(TrackPending') = cs'.confirmed

PathsOf(docs) == {docs[k].path : k \in 1..Len(docs)}

\* One step: a full build returns with the store holding exactly the records
\* of the files it was given and with their number as its count.
C21Step ==
  /\ (build.pc = "getCount" /\ build'.pc = "done") =>
       /\ DOMAIN store' = PathsOf(build.files)
       /\ build'.count = Cardinality(PathsOf(build.files))
  /\ (~popup.incremental /\ popup.pc = "getCount" /\ popup'.pc = "done") =>
       /\ DOMAIN store' = PathsOf(popup.docs)
       /\ popup'.total = Cardinality(PathsOf(popup.docs))

\* C21: when a full build returns (handleBuildIndex, or the popup's buildIndex
\* with incremental = false), the ids in the store are exactly the paths of the
\* files given to that build, and the count it reports is their number.
C21Claim == [][C21Step]_vars

\* The positions of the history entries of the host that reference id.
EntriesOf(host, id) == {i \in 1..Len(history) : history[i].websiteHost = host /\ history[i].fileId = id}

\* The latest time stamp among the entries at the positions in `mine`.
LatestOf(mine) == CHOOSE t \in {history[i].timestamp : i \in mine} : \A i \in mine : history[i].timestamp <= t

\* One step: handleMatch answers; each candidate of the answer carries the
\* count and the latest time stamp of the entries of the request's host that
\* reference it, and a request without a usable page URL is answered with
\* every candidate scored without history.
C22Step ==
  (match.pc # "done" /\ match'.pc = "done") =>
    /\ match'.responded
    /\ \A k \in 1..Len(match'.top) :
         LET r == match'.top[k]
             mine == IF match.pageUrl \in Hosts THEN EntriesOf(match.pageUrl, r.record.id) ELSE {}
         IN /\ r.historyCount = Cardinality(mine)
            /\ IF mine # {}
               THEN /\ r.boost = HistoryBoost(Days[now], LatestOf(mine))
                    /\ r.score.v = 500 * r.tfidf + 350 * HistoryBoost(Days[now], LatestOf(mine)) + 150 * r.pathName
               ELSE /\ r.boost = 0
                    /\ r.score.v = 750 * r.tfidf + 250 * r.pathName

C22WitnessNoUrl ==
  /\ match.pc = "done"
  /\ match.pageUrl = "none"
  /\ Len(match.top) = 2
  /\ \A k \in 1..2 : match.top[k].historyCount = 0 /\ \E i \in 1..Len(history) : history[i].fileId = match.top[k].record.id

\* How many elements of the sequence s are in the set S.
RECURSIVE CountIn(_, _)
CountIn(s, S) == IF s = <<>> THEN 0 ELSE (IF Head(s) \in S THEN 1 ELSE 0) + CountIn(Tail(s), S)

\* C23: computePathNameScore(path, context) is the number of the path's tokens,
\* each occurrence counted, that are among the context's tokens, over the number
\* of the path's tokens; it lies between 0 and 1 and is 0 when the path or the
\* context has no token.
C23Theorem ==
  (match.pc = "done" /\ Len(match.results) = 1) =>
    \A k \in 1..Len(match.top) :
      LET score == match.top[k].pathName
          pathTokens == tokenize(ReplaceWithSpace(match.top[k].record.id, PathSeparators))
          contextTokens == Range(tokenize(match.context))
      IN /\ score >= 0 /\ score <= 1000
         /\ (pathTokens = <<>> \/ contextTokens = {}) => score = 0
         /\ pathTokens # <<>> => score = (CountIn(pathTokens, contextTokens) * 1000) \div Len(pathTokens)

C23Witness ==
  /\ match.pc = "done"
  /\ Len(match.top) = 1
  /\ match.top[1].record.id = <<"c", "v", "/", "c", "v", ".", "m", "d">>
  /\ match.context = <<"c", "v">>
  /\ match.top[1].pathName = 666

\* The position in the sequence `results` of the candidate whose record is id.
PositionOf(results, id) == CHOOSE i \in 1..Len(results) : results[i].record.id = id

\* One step: handleMatch answers, and two candidates of the answer with the same
\* final score stand in the order in which search returned them.
C24Step ==
  (match.pc # "done" /\ match'.pc = "done") =>
    \A k, l \in 1..Len(match'.top) :
      (k < l /\ match'.top[k].score = match'.top[l].score) =>
        PositionOf(match.results, match'.top[k].record.id) < PositionOf(match.results, match'.top[l].record.id)

\* C24: candidates with equal final score appear in handleMatch's answer in the
\* relative order in which search returned them.
C24Theorem == [][C24Step]_vars

C24Witness ==
  /\ match.pc = "done"
  /\ Len(match.results) = MaxCandidates
  /\ Len(match.top) = 5
  /\ match.top[1].hasHistory
  /\ PositionOf(match.results, match.top[1].record.id) > 5
  /\ match.top[2].score = match.top[3].score
  /\ match.top[3].score = match.top[4].score
  /\ match.top[2].tfidf = match.results[1].score.v

\* How many times the term t occurs in the document doc.
Occurrences(doc, t) == Cardinality({j \in 1..Len(doc) : doc[j] = t})

\* C25: the vocabulary a pass built holds exactly the terms that occur in some
\* document of its corpus, and the weight of each term is the one of a df equal
\* to the number of documents that hold the term: the corpus with every
\* repetition inside a document removed gives the same weights.
C25Theorem ==
  PopupBuilt =>
    LET docs == popup.allTokens
        N == Len(docs)
        V == popup.vocab
        once == [i \in 1..N |-> Dedup(docs[i])]
    IN /\ \A i \in 1..N : \A t \in Range(docs[i]) : t \in DOMAIN V.vocabulary
       /\ \A t \in DOMAIN V.vocabulary : \E i \in 1..N : t \in Range(docs[i])
       /\ \A t \in DOMAIN V.idfValues : V.idfValues[t] = LnMilli(N + 1, DocFrequency(docs, t) + 1) + 1000
       /\ buildVocabulary(once) = V

C25Witness ==
  /\ PopupBuilt
  /\ Len(popup.allTokens) = 2
  /\ \E t \in DOMAIN popup.vocab.vocabulary :
       /\ \E i \in 1..2 : Occurrences(popup.allTokens[i], t) = 2
       /\ DocFrequency(popup.allTokens, t) = 1
       /\ popup.vocab.idfValues[t] = LnMilli(3, 2) + 1000
  /\ \E t \in DOMAIN popup.vocab.vocabulary :
       /\ DocFrequency(popup.allTokens, t) = 2
       /\ popup.vocab.idfValues[t] = 1000

\* V is the model buildVocabulary leaves for the corpus docs and nothing else:
\* its terms are the terms of docs, numbered 0..n-1 by first occurrence in the
\* corpus read document by document, each with the weight of its df in docs.
ModelOf(V, docs) ==
  LET flat == Concat(docs)
      n == Cardinality(Range(flat))
  IN /\ DOMAIN V.vocabulary = Range(flat)
     /\ DOMAIN V.idfValues = Range(flat)
     /\ {V.vocabulary[t] : t \in Range(flat)} = 0..(n - 1)
     /\ \A t, u \in Range(flat) : t # u => V.vocabulary[t] # V.vocabulary[u]
     /\ \A t, u \in Range(flat) : V.vocabulary[t] < V.vocabulary[u] <=> IndexOf(flat, t) < IndexOf(flat, u)
     /\ \A t \in Range(flat) : V.idfValues[t] = LnMilli(Len(docs) + 1, DocFrequency(docs, t) + 1) + 1000

\* One step: handleBuildIndex or the popup's buildIndex calls buildVocabulary.
C26Step ==
  /\ (build.pc # "clearAll" /\ build'.pc = "clearAll") => ModelOf(bgVocab', build'.allTokens)
  /\ (popup.pc \in {"read", "delete", "saveHandle", "getAll"} /\ popup'.pc \in {"clearAll", "upsertDoc", "upsertUnchanged", "saveVocab"}) =>
       ModelOf(popup'.vocab, popup'.allTokens)

\* C26: after buildVocabulary the term-to-index map is a bijection between the
\* distinct terms of the corpus and 0..n-1 in order of first discovery, and the
\* model is that of the new corpus alone, whatever model the module held.
C26Theorem == [][C26Step]_vars

C26Witness ==
  /\ build.pc = "clearAll"
  /\ passes = 0
  /\ match.pc = "done"
  /\ match.queryModel = <<IndexedVocab>>
  /\ bgVocab # IndexedVocab
  /\ getVocabSize(bgVocab) = 3
  /\ <<"c", "v">> \in DOMAIN IndexedVocab.vocabulary \ DOMAIN bgVocab.vocabulary
  /\ \E t \in DOMAIN bgVocab.vocabulary :
       /\ bgVocab.vocabulary[t] # IndexedVocab.vocabulary[t]
       /\ bgVocab.idfValues[t] # IndexedVocab.idfValues[t]

\* One bigram for each pair of CJK characters that are next to each other in
\* the text s, from left to right.
RECURSIVE AdjacentPairs(_)
AdjacentPairs(s) ==
  IF Len(s) < 2 THEN <<>>
  ELSE (IF s[1] \in CjkChars /\ s[2] \in CjkChars THEN <<(<<s[1], s[2]>>)>> ELSE <<>>) \o AdjacentPairs(Tail(s))

\* The tokens the statement gives a text: its lower-cased alphanumeric runs,
\* its CJK characters, and its adjacent pairs.
StatedTokens(text) ==
  LET lower == ToLowerCase(text)
      cjk == CjkMatches(lower)
  IN AlnumRuns(lower) \o [i \in 1..Len(cjk) |-> <<cjk[i]>>] \o AdjacentPairs(lower)

\* C27: the tokens handleBuildIndex computed for each file are the lower-cased
\* alphanumeric runs of its text, then its CJK characters, then one bigram for
\* each pair of CJK characters adjacent in the text, and no other token.
C27Claim ==
  build.pc # "idle" =>
    \A k \in 1..Len(build.files) : build.allTokens[k] = StatedTokens(build.files[k].text)

\* One step of batchEmbed.  No more than batchSize requests are unsettled;
\* requests are started only when none is unsettled; the done counts reported
\* never decrease; a call that returns has pushed the embedding of every text,
\* in the order of the texts, and its last report, if it made any, is the total
\* (of no text, nothing is reported).
C28Step ==
  /\ Cardinality(DOMAIN embed'.requests) <= embed'.batchSize
  /\ (DOMAIN embed'.requests \ DOMAIN embed.requests # {}) => DOMAIN embed.requests = {}
  /\ \A k, l \in 1..Len(embed'.reports) : k <= l => embed'.reports[k] <= embed'.reports[l]
  /\ \A k \in 1..Len(embed'.reports) : embed'.reports[k] <= embed'.total
  /\ embed'.pc = "done" =>
       /\ embed'.results = [k \in 1..embed'.total |-> Embedding(k)]
       /\ embed'.requests = EmptyMap
       /\ embed'.total > 0 => (embed'.reports # <<>> /\ embed'.reports[Len(embed'.reports)] = embed'.total)

\* C28: batchEmbed never has more than batchSize embedding requests in flight,
\* starts a batch only after every request of the batch before it has resolved,
\* and on success returns one embedding per text in the order of the texts,
\* having reported non-decreasing done counts of which the last is the total.
C28Theorem == [][C28Step]_vars

C28Witness ==
  /\ embed.pc = "done"
  /\ embed.total = 4
  /\ embed.batchSize = 3
  /\ embed.reports = <<3, 4>>
  /\ Len(embed.results) = 4

\* One step of an ensureVocab call, the one made at load or the one handleMatch
\* awaits.  A call that finds the module's vocabulary non-empty changes
\* nothing; getVocab's snapshot is imported when there is one, the storage is
\* left alone, and the call returns; without one, the snapshot of
\* chrome.storage.local, if any, is imported and written to IndexedDB.
C29Step ==
  /\ (match'.pc # "idle" /\ matches' = matches + 1 /\ getVocabSize(bgVocab) > 0) =>
       /\ bgVocab' = bgVocab /\ idbVocab' = idbVocab /\ csVocab' = csVocab
       /\ match'.pc \notin {"getVocab", "storageGet"}
       /\ match'.queryModel = <<bgVocab>>
  /\ (match'.pc # "idle" /\ matches' = matches + 1 /\ getVocabSize(bgVocab) = 0) => match'.pc = "getVocab"
  /\ (ensure.pc = "getVocab" /\ ensure'.pc # "getVocab") =>
       IF idbVocab # <<>>
       THEN bgVocab' = importVocab(idbVocab[1]) /\ ensure'.pc = "done" /\ idbVocab' = idbVocab /\ csVocab' = csVocab
       ELSE bgVocab' = bgVocab /\ ensure'.pc = "storageGet" /\ idbVocab' = idbVocab /\ csVocab' = csVocab
  /\ (match.pc = "getVocab" /\ match'.pc # "getVocab") =>
       IF idbVocab # <<>>
       THEN bgVocab' = importVocab(idbVocab[1]) /\ match'.pc # "storageGet" /\ idbVocab' = idbVocab /\ csVocab' = csVocab
       ELSE bgVocab' = bgVocab /\ match'.pc = "storageGet" /\ idbVocab' = idbVocab /\ csVocab' = csVocab
  /\ ((ensure.pc = "storageGet" /\ ensure'.pc = "done") \/ (match.pc = "storageGet" /\ match'.pc # "storageGet")) =>
       IF csVocab # <<>>
       THEN bgVocab' = importVocab(csVocab[1]) /\ idbVocab' = csVocab /\ csVocab' = csVocab
       ELSE bgVocab' = bgVocab /\ idbVocab' = idbVocab /\ csVocab' = csVocab

C30Step ==
  (build.pc = "getCount" /\ build'.pc = "done") =>
    LET built == buildVocabulary(build.allTokens)
    IN /\ \A id \in DOMAIN store' : store'[id].model = built
       /\ idbVocab' = <<exportVocab(built)>>

\* C30: whatever ensureVocab call or vocabulary reload runs beside a
\* BUILD_INDEX, when handleBuildIndex returns every stored vector was computed
\* under the vocabulary built from the submitted files and the persisted
\* snapshot is that vocabulary.
C30Claim == [][C30Step]_vars

\* ---------------------------------------------------------------- C31 --

\* Two vocabularies hold the same terms with the same idf, whatever index each
\* gives a term.
SameTerms(V, W) ==
  /\ DOMAIN V.vocabulary = DOMAIN W.vocabulary
  /\ \A t \in DOMAIN V.vocabulary : V.idfValues[t] = W.idfValues[t]

\* Two vectors give every term the same weight, each under its vocabulary.
SameWeights(v, V, w, W) ==
  /\ Len(v) = Len(w)
  /\ \A t \in DOMAIN V.vocabulary \cap DOMAIN W.vocabulary : v[V.vocabulary[t] + 1] = w[W.vocabulary[t] + 1]

\* buildIndex(dirHandle, true) returns over a folder that did not change while
\* it ran.
C31Step ==
  /\ popup.incremental
  /\ popup.pc \in {"getCount", "noChange"}
  /\ popup'.pc = "done"
  /\ fs = popup.fsAtCollect

\* C31: a completed incremental pass leaves the Document Store (ids,
\* fingerprints, vectors) and the vocabulary equal to what a full build over the
\* same current files produces; terms may be numbered differently, their idf and
\* the documents' weights may not differ.
C31Claim ==
  [][C31Step =>
       /\ DOMAIN store' = DOMAIN FullStore(fs)
       /\ idbVocab' # <<>>
       /\ SameTerms(importVocab(idbVocab'[1]), FullVocab(fs))
       /\ \A p \in DOMAIN store' \cap DOMAIN FullStore(fs) :
            /\ store'[p].size = FullStore(fs)[p].size
            /\ store'[p].lastModified = FullStore(fs)[p].lastModified
            /\ SameWeights(store'[p].vector, importVocab(idbVocab'[1]), FullStore(fs)[p].vector, FullVocab(fs))]_vars

\* ---------------------------------------------------------------- C32 --

\* C32: every invocation of buildIndex enables the scan and rescan buttons
\* again, however the pass ends: once buildIndex has returned or thrown (nothing
\* else in the page enables a button), the buttons are enabled.
C32Claim == popup.pc \in {"done", "failed"} => ~popup.disabled

\* ---------------------------------------------------------------- C33 --

\* No setupRescanAlarm is in flight and every RESCAN_CONFIG_UPDATED sent was
\* received.
SetupQuiet == setup.clearing = 0 /\ setup.reading = 0 /\ setup.messages = ConfigMessagesSent

\* C33: once every setupRescanAlarm invocation has completed, the alarm exists
\* exactly when the stored configuration has autoRescanEnabled and a positive
\* interval, and its period is the stored interval.
C33Claim ==
  SetupQuiet =>
    /\ setup.alarm # <<>> <=> (rescan.stored.autoRescanEnabled /\ rescan.stored.rescanIntervalMin > 0)
    /\ setup.alarm # <<>> => setup.alarm[1] = rescan.stored.rescanIntervalMin

\* ---------------------------------------------------------------- C34 --

\* The content similarity of the record id that the request scored.
SimilarityOf(id) ==
  LET k == CHOOSE j \in 1..Len(match.scored) : match.scored[j].id = id
  IN cosine(match.queryVec, match.scored[k].vector)

\* The records the request scored that are strictly more similar than id.
MoreSimilar(id) ==
  {j \in 1..Len(match.scored) :
     LET d == NumSub(cosine(match.queryVec, match.scored[j].vector), SimilarityOf(id)) IN ~d.nan /\ d.v > 0}

TrackedHere(id) == \E k \in 1..Len(history) : history[k].fileId = id /\ history[k].websiteHost = match.pageUrl

Returned(id) == \E i \in 1..Len(match.top) : match.top[i].record.id = id

C35Claim == Cardinality(AttachedPanels) <= 1

OwedInBuffer(n) == \E e \in log.owed : e.n = n /\ e \in Range(log.buffer)

\* The entry numbered n was given to the persister, or is no longer in the buffer.
HandedOrEvicted(n) == \A e \in log.owed : e.n = n => (e \in log.handed \/ e \notin Range(log.buffer))

\* C37: with a persister set, at most one flush time-out is pending at any
\* time, and logging while one is pending sets no other; an entry logged with a
\* persister set that is in the buffer and was not given to the persister has
\* a time-out pending, the firing of the time-out gives the persister the
\* buffer as it is then, and so every such entry is eventually given to the
\* persister unless it left the buffer first.
C37Theorem ==
  /\ [](log.timers <= 1)
  /\ [][log.timers >= 1 => log'.timers <= log.timers]_vars
  /\ [](\A e \in log.owed : (e \in Range(log.buffer) /\ e \notin log.handed) => log.timers = 1)
  /\ [][(log.persister /\ log'.timers < log.timers) => (log'.snapshot = log.buffer /\ Range(log.buffer) \subseteq log'.handed)]_vars
  /\ \A n \in 1..MaxLogged : OwedInBuffer(n) ~> HandedOrEvicted(n)

\* A persister is set, it was given one entry already, and two entries logged
\* since wait in the buffer for the one time-out that is pending.
C37Witness ==
  /\ log.persister
  /\ log.timers = 1
  /\ Cardinality({e \in log.owed : e \in Range(log.buffer) /\ e \notin log.handed}) >= 2
  /\ \E e \in log.owed : e \in log.handed

=============================================================================
